---- MODULE Spec2Model ----
(***************************************************************************)
(* Model of the ORM query diagnostics scripts:                             *)
(*   query_analyzer.py  (normalize_query, parse_query, the detectors,      *)
(*                       analyze_queries, format_report, parse_log_file,   *)
(*                       main)                                             *)
(*   explain_parser.py  (parse_postgres_explain, format_report, main)      *)
(*                                                                         *)
(* Python strings are sequences of one-character strings, so that the      *)
(* regular expressions of the source are modelled by what they match.      *)
(***************************************************************************)
EXTENDS Integers, Sequences, FiniteSets, TLC

VARIABLES
    tool,          \* which script runs: "query_analyzer" | "explain_parser"
    pc,            \* position inside the script's main()
    content,       \* the input text read by main()
    raw_queries,   \* query_analyzer.main: result of parse_log_file(content)
    queries,       \* query_analyzer.main: parsed_queries
    n_plus_one,    \* analyze_queries: local holding detect_n_plus_one's result
    issues,        \* the issue list (analysis result, then filtered)
    min_severity,  \* args.min_severity
    dialect,       \* explain_parser.main: which of --postgres / --mysql / --sqlite
    nodes,         \* explain_parser.main: the parsed plan nodes
    report         \* what main() printed

vars == <<tool, pc, content, raw_queries, queries, n_plus_one, issues,
          min_severity, dialect, nodes, report>>

-----------------------------------------------------------------------------
(* Python str primitives over sequences of characters                      *)

Chars(str) == [i \in 1..Len(str) |-> SubSeq(str, i, i)]

\* ''.join(cs), by halves so that the evaluation stays shallow
RECURSIVE Join(_)
Join(cs) ==
    IF cs = <<>> THEN ""
    ELSE IF Len(cs) = 1 THEN cs[1]
    ELSE LET h == Len(cs) \div 2
         IN  Join(SubSeq(cs, 1, h)) \o Join(SubSeq(cs, h + 1, Len(cs)))

LowerLetters == "abcdefghijklmnopqrstuvwxyz"
UpperLetters == "ABCDEFGHIJKLMNOPQRSTUVWXYZ"
DigitChars == "0123456789"

SetOf(str) == {SubSeq(str, i, i) : i \in 1..Len(str)}

Digits == SetOf(DigitChars)
Letters == SetOf(LowerLetters) \cup SetOf(UpperLetters)
WordChars == Letters \cup Digits \cup {"_"}
Whitespace == {" ", "\n", "\t"}
Quotes == {"'", "\""}

UpperMap == [c \in SetOf(LowerLetters) |->
               LET i == CHOOSE k \in 1..Len(LowerLetters) : SubSeq(LowerLetters, k, k) = c
               IN  SubSeq(UpperLetters, i, i)]

UpperChar(c) == IF c \in DOMAIN UpperMap THEN UpperMap[c] ELSE c

\* str.upper()
upper(s) == [i \in 1..Len(s) |-> UpperChar(s[i])]

SetMin(S) == CHOOSE x \in S : \A y \in S : x <= y
SetMax(S) == CHOOSE x \in S : \A y \in S : x >= y

\* s[i:] starts with the characters w
StartsWithAt(s, i, w) ==
    /\ i >= 1
    /\ i + Len(w) - 1 <= Len(s)
    /\ \A k \in 1..Len(w) : s[i + k - 1] = w[k]

\* the same, ignoring case (re.IGNORECASE on an ASCII literal)
StartsWithAtI(s, i, w) ==
    /\ i >= 1
    /\ i + Len(w) - 1 <= Len(s)
    /\ \A k \in 1..Len(w) : UpperChar(s[i + k - 1]) = UpperChar(w[k])

\* str.startswith
startswith(s, w) == StartsWithAt(s, 1, w)

\* `w in s` for a non-empty w
Contains(s, w) == \E i \in 1..Len(s) : StartsWithAt(s, i, w)

\* first index >= i holding a character outside `set` (Len(s)+1 when none)
SkipWhile(s, i, set) ==
    LET stop == {j \in i..Len(s) : s[j] \notin set}
    IN  IF stop = {} THEN Len(s) + 1 ELSE SetMin(stop)

\* first index >= i holding the character c (0 when none)
FindChar(s, i, c) ==
    LET hit == {j \in i..Len(s) : s[j] = c}
    IN  IF hit = {} THEN 0 ELSE SetMin(hit)

\* str.strip()
strip(s) ==
    LET keep == {j \in 1..Len(s) : s[j] \notin Whitespace}
    IN  IF keep = {} THEN <<>> ELSE SubSeq(s, SetMin(keep), SetMax(keep))

\* re.sub(pattern, repl, s): MatchEnd(s, i) is the last index of the pattern's
\* match starting at i, 0 when the pattern does not match there. From index i
\* the leftmost match is replaced and the scan resumes after it.
re_sub(MatchEnd(_, _), repl, s) ==
    LET F[i \in 1..Len(s) + 1] ==
            LET starts == {j \in i..Len(s) : MatchEnd(s, j) >= j}
            IN  IF starts = {} THEN SubSeq(s, i, Len(s))
                ELSE LET j == SetMin(starts)
                     IN  SubSeq(s, i, j - 1) \o repl \o F[MatchEnd(s, j) + 1]
    IN  F[1]

WhitespaceRunEnd(s, i) ==
    IF s[i] \in Whitespace THEN SkipWhile(s, i, Whitespace) - 1 ELSE 0

\* ' '.join(s.split())
collapse_whitespace(s) == re_sub(WhitespaceRunEnd, <<" ">>, strip(s))

-----------------------------------------------------------------------------
(* normalize_query                                                         *)

\* ^Executing \([^)]+\):\s*   (anchored: only at index 1)
ExecutingPrefixEnd(s, i) ==
    IF i = 1 /\ StartsWithAt(s, 1, Chars("Executing ("))
    THEN LET close == FindChar(s, 12, ")")
         IN  IF close >= 13 /\ close + 1 <= Len(s) /\ s[close + 1] = ":"
             THEN SkipWhile(s, close + 2, Whitespace) - 1
             ELSE 0
    ELSE 0

\* ^Query:\s*
QueryPrefixEnd(s, i) ==
    IF i = 1 /\ StartsWithAt(s, 1, Chars("Query:"))
    THEN SkipWhile(s, 7, Whitespace) - 1
    ELSE 0

\* number of consecutive backslashes that end right before index j, none of
\* them at an index below lo
BackslashRun(s, lo, j) ==
    j - 1 - SetMax({lo - 1} \cup {k \in lo..(j - 1) : s[k] # "\\"})

\* '(?:[^'\\]|\\.)*' : the literal opened at i closes at the first quote that
\* is not the second character of a backslash pair
StringLiteralEnd(s, i) ==
    IF s[i] = "'"
    THEN LET close == {j \in (i + 1)..Len(s) :
                          s[j] = "'" /\ BackslashRun(s, i + 1, j) % 2 = 0}
         IN  IF close = {} THEN 0 ELSE SetMin(close)
    ELSE 0

IsWordAt(s, j) == j >= 1 /\ j <= Len(s) /\ s[j] \in WordChars

\* \b\d+(?:\.\d+)?\b
NumericLiteralEnd(s, i) ==
    IF s[i] \notin Digits \/ IsWordAt(s, i - 1) THEN 0
    ELSE LET j == SkipWhile(s, i, Digits) - 1
         IN  IF /\ j + 2 <= Len(s)
                /\ s[j + 1] = "."
                /\ s[j + 2] \in Digits
                /\ ~IsWordAt(s, SkipWhile(s, j + 2, Digits))
             THEN SkipWhile(s, j + 2, Digits) - 1
             ELSE IF ~IsWordAt(s, j + 1) THEN j ELSE 0

\* IN\s*\([^)]+\)   (re.IGNORECASE)
InListEnd(s, i) ==
    IF StartsWithAtI(s, i, Chars("IN"))
    THEN LET p == SkipWhile(s, i + 2, Whitespace)
         IN  IF p + 1 <= Len(s) /\ s[p] = "(" /\ s[p + 1] # ")"
             THEN FindChar(s, p + 2, ")")
             ELSE 0
    ELSE 0

\* \$\d+
DollarParamEnd(s, i) ==
    IF s[i] = "$" /\ i + 1 <= Len(s) /\ s[i + 1] \in Digits
    THEN SkipWhile(s, i + 1, Digits) - 1
    ELSE 0

\* :\w+
NamedParamEnd(s, i) ==
    IF s[i] = ":" /\ i + 1 <= Len(s) /\ s[i + 1] \in WordChars
    THEN SkipWhile(s, i + 1, WordChars) - 1
    ELSE 0

\* %\(\w+\)s
PyformatParamEnd(s, i) ==
    IF StartsWithAt(s, i, Chars("%(")) /\ i + 2 <= Len(s) /\ s[i + 2] \in WordChars
    THEN LET e == SkipWhile(s, i + 2, WordChars)
         IN  IF StartsWithAt(s, e, Chars(")s")) THEN e + 1 ELSE 0
    ELSE 0

\* %s
FormatParamEnd(s, i) == IF StartsWithAt(s, i, Chars("%s")) THEN i + 1 ELSE 0

normalize_query(sql) ==
    LET s1 == re_sub(ExecutingPrefixEnd, <<>>, sql)
        s2 == re_sub(QueryPrefixEnd, <<>>, s1)
        s3 == collapse_whitespace(s2)
        s4 == re_sub(StringLiteralEnd, Chars("'?'"), s3)
        s5 == re_sub(NumericLiteralEnd, Chars("?"), s4)
        s6 == re_sub(InListEnd, Chars("IN (?)"), s5)
        s7 == re_sub(DollarParamEnd, Chars("?"), s6)
        s8 == re_sub(NamedParamEnd, Chars("?"), s7)
        s9 == re_sub(PyformatParamEnd, Chars("?"), s8)
        s10 == re_sub(FormatParamEnd, Chars("?"), s9)
    IN  upper(s10)

-----------------------------------------------------------------------------
(* parse_query                                                             *)

TableKeywords == {"FROM", "JOIN", "INTO", "UPDATE"}

\* (?:FROM|JOIN|INTO|UPDATE)\s+["']?(\w+)["']?  matched at i:
\* <<last index of the match, captured name>>, <<0, <<>>>> when no match
TableMatch(s, i) ==
    LET kws == {kw \in TableKeywords : StartsWithAt(s, i, Chars(kw))}
    IN  IF kws = {} THEN <<0, <<>>>>
        ELSE LET kw == CHOOSE k \in kws : TRUE
                 w == i + Len(kw)
                 p == SkipWhile(s, w, Whitespace)
                 q == IF p <= Len(s) /\ s[p] \in Quotes THEN p + 1 ELSE p
             IN  IF p > w /\ IsWordAt(s, q)
                 THEN LET r == SkipWhile(s, q, WordChars) - 1
                          e == IF r + 1 <= Len(s) /\ s[r + 1] \in Quotes THEN r + 1 ELSE r
                      IN  <<e, SubSeq(s, q, r)>>
                 ELSE <<0, <<>>>>

\* set(re.findall(table_pattern, upper_sql))
find_tables(s) ==
    LET F[i \in 1..Len(s) + 1] ==
            LET starts == {j \in i..Len(s) : TableMatch(s, j)[1] >= j}
            IN  IF starts = {} THEN {}
                ELSE LET m == TableMatch(s, SetMin(starts))
                     IN  {Join(m[2])} \cup F[m[1] + 1]
    IN  F[1]

\* re.search(r'SELECT\s+\*', upper_sql)
SelectStarAt(s, i) ==
    /\ StartsWithAt(s, i, Chars("SELECT"))
    /\ SkipWhile(s, i + 6, Whitespace) > i + 6
    /\ SkipWhile(s, i + 6, Whitespace) <= Len(s)
    /\ s[SkipWhile(s, i + 6, Whitespace)] = "*"

query_type_of(upper_sql) ==
    LET t == strip(upper_sql)
    IN  IF startswith(t, Chars("SELECT")) THEN "SELECT"
        ELSE IF startswith(t, Chars("INSERT")) THEN "INSERT"
        ELSE IF startswith(t, Chars("UPDATE")) THEN "UPDATE"
        ELSE IF startswith(t, Chars("DELETE")) THEN "DELETE"
        ELSE "OTHER"

\* parse_query(sql) for sql given as a string; raw and normalized are kept as
\* strings
parse_query(sql) ==
    LET cs == Chars(sql)
        upper_sql == upper(cs)
    IN  [raw |-> sql,
         normalized |-> Join(normalize_query(cs)),
         query_type |-> query_type_of(upper_sql),
         tables |-> find_tables(upper_sql),
         has_where |-> Contains(upper_sql, Chars("WHERE")),
         has_limit |-> Contains(upper_sql, Chars("LIMIT")),
         has_join |-> Contains(upper_sql, Chars("JOIN")),
         selects_all |-> \E i \in 1..Len(upper_sql) : SelectStarAt(upper_sql, i)]

-----------------------------------------------------------------------------
(* Python values used by the detectors                                     *)

\* detect_n_plus_one returns a list or None
PyNone == [kind |-> "None"]
PyList(items) == [kind |-> "list", items |-> items]

\* truth value of an Optional[list]
Truthy(v) == v.kind = "list" /\ v.items # <<>>

RECURSIVE Pow10(_)
Pow10(n) == IF n = 0 THEN 1 ELSE 10 * Pow10(n - 1)

\* str(n) for 0 <= n < 10^9
IntToStr(n) ==
    LET width == SetMin({w \in 1..9 : n < Pow10(w)})
        Digit(k) == (n \div Pow10(width - k)) % 10
    IN  Join([k \in 1..width |-> SubSeq(DigitChars, Digit(k) + 1, Digit(k) + 1)])

\* the elements of a finite set of integers, ascending
SortedSeq(S) ==
    [k \in 1..Cardinality(S) |->
        CHOOSE x \in S : Cardinality({y \in S : y < x}) = k - 1]

\* s[:n]
Take(s, n) == SubSeq(s, 1, IF Len(s) < n THEN Len(s) ELSE n)

\* [f(x) for x in s]
Map(f(_), s) == [k \in 1..Len(s) |-> f(s[k])]

Range(s) == {s[k] : k \in 1..Len(s)}

RECURSIVE Concat(_)
Concat(ss) == IF ss = <<>> THEN <<>> ELSE Head(ss) \o Concat(Tail(ss))

Issue(severity, category, message, qs, suggestion) ==
    [severity |-> severity, category |-> category, message |-> message,
     queries |-> qs, suggestion |-> suggestion]

\* keys of a dict filled in one pass over `keys`: the indices at which a key
\* occurs for the first time, ascending (dicts keep insertion order)
FirstOccurrences(keys) ==
    SortedSeq({i \in 1..Len(keys) : \A j \in 1..(i - 1) : keys[j] # keys[i]})

\* the indices holding the same key as index i, ascending
OccurrencesOf(keys, i) == SortedSeq({j \in 1..Len(keys) : keys[j] = keys[i]})

-----------------------------------------------------------------------------
(* detect_n_plus_one                                                       *)

\* max(indices) - min(indices) <= len(occurrences) * 2
roughly_consecutive_wide(indices) ==
    indices[Len(indices)] - indices[1] <= Len(indices) * 3

roughly_consecutive(indices) ==
    indices[Len(indices)] - indices[1] <= Len(indices) * 2

n_plus_one_group(indices) == Len(indices) >= 3 /\ roughly_consecutive(indices)

\* queries taken from the end of the occurrences instead of their start
n_plus_one_issue_last(qs, indices) ==
    Issue("HIGH", "N+1 Query",
          "Detected " \o IntToStr(Len(indices)) \o " similar queries executed in sequence",
          SubSeq([k \in 1..Len(indices) |-> qs[indices[k]].raw],
                 IF Len(indices) > 3 THEN Len(indices) - 2 ELSE 1, Len(indices)),
          "Use eager loading (include/preload/prefetch_related) to fetch related data in one query")

n_plus_one_issue(qs, indices) ==
    Issue("HIGH", "N+1 Query",
          "Detected " \o IntToStr(Len(indices)) \o " similar queries executed in sequence",
          Take([k \in 1..Len(indices) |-> qs[indices[k]].raw], 3),
          "Use eager loading (include/preload/prefetch_related) to fetch related data in one query")

detect_n_plus_one(qs) ==
    LET keys == [i \in 1..Len(qs) |-> qs[i].normalized]
        Flagged(i) == n_plus_one_group(OccurrencesOf(keys, i))
        MakeIssue(i) == n_plus_one_issue(qs, OccurrencesOf(keys, i))
        found == Map(MakeIssue, SelectSeq(FirstOccurrences(keys), Flagged))
    IN  IF found # <<>> THEN PyList(found) ELSE PyNone

-----------------------------------------------------------------------------
(* detect_missing_where                                                    *)

missing_where_ignoring_limit(q) == q.query_type = "SELECT" /\ ~q.has_where

missing_where(q) == q.query_type = "SELECT" /\ ~q.has_where /\ ~q.has_limit

missing_where_issue(q) ==
    Issue("MEDIUM", "Missing WHERE",
          "SELECT query without WHERE clause may cause full table scan",
          <<q.raw>>,
          "Add WHERE clause or LIMIT to prevent scanning entire table")

detect_missing_where(qs) == Map(missing_where_issue, SelectSeq(qs, missing_where))

-----------------------------------------------------------------------------
(* detect_select_star                                                      *)

is_select_star(q) == q.selects_all /\ q.query_type = "SELECT"

\* without the [:3] on the queries
detect_select_star_untruncated(qs) ==
    LET select_star_queries == SelectSeq(qs, is_select_star)
        raw_of(q) == q.raw
    IN  IF select_star_queries # <<>>
        THEN <<Issue("LOW", "SELECT *",
                     "Found " \o IntToStr(Len(select_star_queries)) \o " queries using SELECT *",
                     Map(raw_of, select_star_queries),
                     "Select only needed columns to reduce data transfer and memory usage")>>
        ELSE <<>>

detect_select_star(qs) ==
    LET select_star_queries == SelectSeq(qs, is_select_star)
        raw_of(q) == q.raw
    IN  IF select_star_queries # <<>>
        THEN <<Issue("LOW", "SELECT *",
                     "Found " \o IntToStr(Len(select_star_queries)) \o " queries using SELECT *",
                     Map(raw_of, Take(select_star_queries, 3)),
                     "Select only needed columns to reduce data transfer and memory usage")>>
        ELSE <<>>

-----------------------------------------------------------------------------
(* detect_duplicate_queries                                                *)

\* with len(occurrences) >= 2
detect_duplicate_queries_twice(qs) ==
    LET keys == [i \in 1..Len(qs) |-> qs[i].raw]
        Repeated(i) == Len(OccurrencesOf(keys, i)) >= 2
        MakeIssue(i) ==
            Issue("MEDIUM", "Duplicate Query",
                  "Identical query executed " \o IntToStr(Len(OccurrencesOf(keys, i))) \o " times",
                  <<keys[i]>>,
                  "Consider caching the result or restructuring code to avoid repeated queries")
    IN  Map(MakeIssue, SelectSeq(FirstOccurrences(keys), Repeated))

detect_duplicate_queries(qs) ==
    LET keys == [i \in 1..Len(qs) |-> qs[i].raw]
        Repeated(i) == Len(OccurrencesOf(keys, i)) >= 3
        MakeIssue(i) ==
            Issue("MEDIUM", "Duplicate Query",
                  "Identical query executed " \o IntToStr(Len(OccurrencesOf(keys, i))) \o " times",
                  <<keys[i]>>,
                  "Consider caching the result or restructuring code to avoid repeated queries")
    IN  Map(MakeIssue, SelectSeq(FirstOccurrences(keys), Repeated))

-----------------------------------------------------------------------------
(* detect_cartesian_join                                                   *)

\* indices at which w occurs in s
OccurrencesAt(s, w) == {i \in 1..Len(s) : StartsWithAt(s, i, w)}

\* s.split('FROM')[1] for an s that contains FROM
after_first_from(s) ==
    LET a == SetMin(OccurrencesAt(s, Chars("FROM")))
        later == {i \in OccurrencesAt(s, Chars("FROM")) : i >= a + 4}
    IN  SubSeq(s, a + 4, IF later = {} THEN Len(s) ELSE SetMin(later) - 1)

\* s.split('WHERE')[0]
before_first_where(s) ==
    LET w == OccurrencesAt(s, Chars("WHERE"))
    IN  IF w = {} THEN s ELSE SubSeq(s, 1, SetMin(w) - 1)

\* not q.has_join and ',' in q.raw.upper().split('FROM')[1].split('WHERE')[0]
\*     if 'FROM' in q.raw.upper() else False
comma_separated_from(q) ==
    LET u == upper(Chars(q.raw))
    IN  IF Contains(u, Chars("FROM"))
        THEN ~q.has_join /\ Contains(before_first_where(after_first_from(u)), <<",">>)
        ELSE FALSE

is_cartesian_join(q) ==
    /\ q.query_type = "SELECT"
    /\ Cardinality(q.tables) > 1
    /\ comma_separated_from(q)

cartesian_join_issue(q) ==
    Issue("HIGH", "Cartesian Join",
          "Possible Cartesian join detected (comma-separated tables)",
          <<q.raw>>,
          "Use explicit JOIN with ON clause to specify relationship")

detect_cartesian_join(qs) == Map(cartesian_join_issue, SelectSeq(qs, is_cartesian_join))

-----------------------------------------------------------------------------
(* analyze_queries                                                         *)

analyze_queries(qs) ==
    (IF Truthy(detect_n_plus_one(qs)) THEN detect_n_plus_one(qs).items ELSE <<>>)
        \o detect_missing_where(qs)
        \o detect_select_star(qs)
        \o detect_duplicate_queries(qs)
        \o detect_cartesian_join(qs)

-----------------------------------------------------------------------------
(* main: severity filter, and format_report                                *)

Severities == {"LOW", "MEDIUM", "HIGH"}

severity_order_alphabetical == [s \in Severities |->
    IF s = "HIGH" THEN 0 ELSE IF s = "LOW" THEN 1 ELSE 2]

severity_order == [s \in Severities |->
    IF s = "LOW" THEN 0 ELSE IF s = "MEDIUM" THEN 1 ELSE 2]

\* [i for i in issues if severity_order[i.severity] >= min_level]
filter_by_severity(all, min) ==
    LET Keep(i) == severity_order[i.severity] >= severity_order[min]
    IN  SelectSeq(all, Keep)

\* q[:200] + "..." if len(q) > 200 else q
q_display(q) == IF Len(q) > 200 THEN SubSeq(q, 1, 200) \o "..." ELSE q

\* query_analyzer.format_report: the report as the data its lines print
format_report(shown, qs) ==
    LET cats == [i \in 1..Len(shown) |-> shown[i].category]
        Count(sev) == Cardinality({i \in 1..Len(shown) : shown[i].severity = sev})
        Present(sev) == Count(sev) > 0
        Breakdown(sev) == [severity |-> sev, count |-> Count(sev)]
        Entry(issue) == [severity |-> issue.severity, message |-> issue.message,
                         example |-> Map(q_display, Take(issue.queries, 1)),
                         suggestion |-> issue.suggestion]
        Section(i) ==
            LET cat_issues == [k \in 1..Len(OccurrencesOf(cats, i)) |->
                                  shown[OccurrencesOf(cats, i)[k]]]
            IN  [category |-> cats[i], count |-> Len(cat_issues),
                 entries |-> Map(Entry, Take(cat_issues, 5))]
    IN  [title |-> "QUERY ANALYSIS REPORT",
         total |-> Len(qs),
         found |-> Len(shown),
         breakdown |-> Map(Breakdown, SelectSeq(<<"HIGH", "MEDIUM", "LOW">>, Present)),
         sections |-> Map(Section, FirstOccurrences(cats)),
         no_issues |-> shown = <<>>]

-----------------------------------------------------------------------------
(* parse_log_file                                                          *)

StatementKeywords == {"SELECT", "INSERT", "UPDATE", "DELETE", "WITH"}

\* Executing \([^)]+\):  matched at i (re.IGNORECASE): its last index, 0 when
\* it does not match
ExecutingFrameEnd(s, i) ==
    IF StartsWithAtI(s, i, Chars("Executing ("))
    THEN LET close == FindChar(s, i + 11, ")")
         IN  IF close >= i + 12 /\ close + 1 <= Len(s) /\ s[close + 1] = ":"
             THEN close + 1
             ELSE 0
    ELSE 0

\* Query:  matched at i (re.IGNORECASE)
QueryFrameEnd(s, i) == IF StartsWithAtI(s, i, Chars("Query:")) THEN i + 5 ELSE 0

\* \s*(.+?)(?=stop|\Z) after a frame that ends at f (re.DOTALL): the first and
\* last index of the group, <<0, 0>> when it does not match. \s* takes all
\* the whitespace and the lazy group runs to the next `stop` or to the end;
\* when only whitespace is left, \s* gives its last character to the group.
BlockGroup(s, f, stop) ==
    LET p == SkipWhile(s, f + 1, Whitespace)
    IN  IF p <= Len(s)
        THEN LET stops == {j \in (p + 1)..Len(s) : StartsWithAtI(s, j, Chars(stop))}
             IN  <<p, IF stops = {} THEN Len(s) ELSE SetMin(stops) - 1>>
        ELSE IF f < Len(s) THEN <<Len(s), Len(s)>>
        ELSE <<0, 0>>

\* Executing \([^)]+\):\s*(.+?)(?=Executing|\Z)  matched at i
ExecutingBlock(s, i) ==
    IF ExecutingFrameEnd(s, i) > 0
    THEN BlockGroup(s, ExecutingFrameEnd(s, i), "Executing")
    ELSE <<0, 0>>

\* Query:\s*(.+?)(?=Query:|\Z)  matched at i
QueryBlock(s, i) ==
    IF QueryFrameEnd(s, i) > 0
    THEN BlockGroup(s, QueryFrameEnd(s, i), "Query:")
    ELSE <<0, 0>>

\* ((?:SELECT|INSERT|UPDATE|DELETE|WITH)\s+.+?;)  matched at i: the keyword,
\* whitespace, and the text up to the first semicolon that leaves the lazy
\* group at least one character
Statement(s, i) ==
    LET kws == {kw \in StatementKeywords : StartsWithAtI(s, i, Chars(kw))}
    IN  IF kws = {} THEN <<0, 0>>
        ELSE LET w == i + Len(CHOOSE k \in kws : TRUE)
                 p == SkipWhile(s, w, Whitespace)
                 semi == FindChar(s, p + 1, ";")
             IN  IF p = w THEN <<0, 0>>
                 ELSE IF semi > 0 THEN <<i, semi>>
                 ELSE IF p <= Len(s) /\ s[p] = ";" /\ p - w >= 2 THEN <<i, p>>
                 ELSE <<0, 0>>

\* re.findall for a pattern with one group: GroupAt(s, i) is the group of the
\* match that starts at i
findall_executing(s) ==
    LET F[i \in 1..Len(s) + 1] ==
            LET starts == {j \in i..Len(s) : ExecutingBlock(s, j)[1] > 0}
            IN  IF starts = {} THEN <<>>
                ELSE LET g == ExecutingBlock(s, SetMin(starts))
                     IN  <<SubSeq(s, g[1], g[2])>> \o F[g[2] + 1]
    IN  F[1]

findall_query(s) ==
    LET F[i \in 1..Len(s) + 1] ==
            LET starts == {j \in i..Len(s) : QueryBlock(s, j)[1] > 0}
            IN  IF starts = {} THEN <<>>
                ELSE LET g == QueryBlock(s, SetMin(starts))
                     IN  <<SubSeq(s, g[1], g[2])>> \o F[g[2] + 1]
    IN  F[1]

findall_statement(s) ==
    LET F[i \in 1..Len(s) + 1] ==
            LET starts == {j \in i..Len(s) : Statement(s, j)[1] > 0}
            IN  IF starts = {} THEN <<>>
                ELSE LET g == Statement(s, SetMin(starts))
                     IN  <<SubSeq(s, g[1], g[2])>> \o F[g[2] + 1]
    IN  F[1]

\* content.split('\n')
split_lines(s) ==
    LET breaks == SortedSeq({0} \cup {j \in 1..Len(s) : s[j] = "\n"} \cup {Len(s) + 1})
    IN  [k \in 1..(Len(breaks) - 1) |-> SubSeq(s, breaks[k] + 1, breaks[k + 1] - 1)]

is_statement_line(line) ==
    /\ line # <<>>
    /\ \E kw \in StatementKeywords : startswith(upper(line), Chars(kw))

\* the line-by-line fallback
keyword_lines(s) == SelectSeq(Map(strip, split_lines(s)), is_statement_line)

\* [m.strip() for m in matches], without the `if m.strip()`
stripped_matches_with_blank(matches) == Map(strip, matches)

\* [m.strip() for m in matches if m.strip()]
stripped_matches(matches) ==
    LET NonBlank(m) == m # <<>>
    IN  SelectSeq(Map(strip, matches), NonBlank)

\* the matches of the first of the three patterns that matches anywhere
first_matching_pattern(s) ==
    IF findall_executing(s) # <<>> THEN findall_executing(s)
    ELSE IF findall_query(s) # <<>> THEN findall_query(s)
    ELSE findall_statement(s)

parse_log_file(text) ==
    LET s == Chars(text)
        found == stripped_matches(first_matching_pattern(s))
    IN  Map(Join, IF found # <<>> THEN found ELSE keyword_lines(s))

-----------------------------------------------------------------------------
(* The statements the logs are made of                                     *)

Corpus == {
    "SELECT * FROM a, b WHERE a.id = b.a_id",
    "SELECT * FROM a JOIN b ON a.id = b.a_id",
    "SELECT * FROM a, b WHERE a.id IN (SELECT id FROM c)",
    "SELECT * FROM users",
    "SELECT * FROM users LIMIT 10",
    "SELECT id FROM users WHERE active = true",
    "UPDATE users SET visits = 0" }

BurstCorpus == {
    "SELECT * FROM orders WHERE user_id = 1",
    "SELECT * FROM orders WHERE user_id = 42",
    "SELECT name FROM users" }

\* statements that differ only in the value of one literal
NumericLiterals == {"1", "42", "1.5"}
StringLiterals == {"'its'", "'it''s'", "''", "'x\\'y'", "'a b'"}
InLists == {"(1)", "(1, 2, 3)", "('a', 'b')"}

WithNumber(lit) == "SELECT * FROM t WHERE id = " \o lit
WithString(lit) == "SELECT * FROM t WHERE name = " \o lit
WithInList(lit) == "SELECT * FROM t WHERE id IN " \o lit

\* pairs of statements that differ only in the value of their literal
LiteralPairs ==
    {<<WithNumber(x), WithNumber(y)>> : x \in NumericLiterals, y \in NumericLiterals}
    \cup {<<WithString(x), WithString(y)>> : x \in StringLiterals, y \in StringLiterals}
    \cup {<<WithInList(x), WithInList(y)>> : x \in InLists, y \in InLists}

LiteralCorpus == {p[1] : p \in LiteralPairs}

\* parse_query over the statements, evaluated once
Parsed == [sql \in Corpus \cup BurstCorpus \cup LiteralCorpus |-> parse_query(sql)]

\* the lines the log blobs are made of: a framing prefix and a body
LogPrefixes == {"", "Executing (default): ", "Query: "}
LogBodies == {"", "SELECT 1;", "select name from users", "hello"}
LogLines == {p \o b : p \in LogPrefixes, b \in LogBodies}

MaxQueries == 3
MaxBurst == 8
MaxLogLines == 2
MaxEvidenceLog == 4

\* the lines of the PostgreSQL plans
PlanLines ==
    {"Seq Scan on users  (cost=0.00..431.00 rows=100 width=244) (actual time=0.015..3.123 rows=5000 loops=1)",
     "Seq Scan on users  (cost=0.00..431.00 rows=100 width=244)",
     "  ->  Index Scan using idx on orders  (cost=0.29..8.31 rows=100 width=8) (actual time=0.010..0.020 rows=150 loops=1)",
     "  ->  Index Scan using idx on orders  (cost=0.29..8.31 rows=10 width=8) (actual time=0.010..0.020 rows=100 loops=1)",
     "  ->  Index Scan using idx on orders  (cost=0.29..8.31 rows=100 width=8) (actual time=0.010..0.020 rows=10 loops=1)",
     "  ->  Index Scan using idx on orders  (cost=0.29..8.31 rows=100 width=8) (actual time=0.010..0.020 rows=9 loops=1)",
     "  ->  Index Scan using idx on orders  (cost=0.29..8.31 rows=0 width=8) (actual time=0.010..0.020 rows=50 loops=1)",
     "Nested Loop  (cost=1.00..20.00 rows=10 width=8) (actual time=0.100..9.500 rows=10 loops=101)",
     "Sort  (cost=1.2.3..4.00 rows=10 width=8)",
     "  Sort Method: external merge  Disk: 1024kB",
     "  Buffers: shared read=20000",
     "Planning Time: 0.100 ms",
     "Execution Time: 5.000 ms  Sort Method: external  Buffers: shared read=20000",
     "hello world",
     ""}

MaxPlanLines == 2

\* lines of the output of EXPLAIN in the mysql client: rows of 12, 10 and 9
\* fields, a row without the outer bars, a row with empty cells, the header
\* and the border
MysqlRows ==
    {"| 1 | SIMPLE | users | NULL | ALL | NULL | NULL | NULL | NULL | 1000 | 100.00 | Using where; Using filesort |",
     "| 1 | SIMPLE | orders | NULL | ref | idx | idx | 4 | const | 5 | 100.00 | Using temporary |",
     "| 2 | SIMPLE | t | p | index | k | k | 4 | r | 7 |",
     "| 3 | SIMPLE | t | p | ALL | k | k | 4 | r |",
     "1 | SIMPLE | u | NULL | ALL | NULL | NULL | NULL | NULL | x | 100.00 | NULL",
     "| 1 | SIMPLE | users |  | ALL |  |  |  |  | 1000 | 100.00 |  |",
     "| id | select_type | table | partitions | type | possible_keys | key | key_len | ref | rows | filtered | Extra |",
     "+----+-------------+-------+"}

\* texts read whole: the output of EXPLAIN FORMAT=JSON (tables alone, in a
\* join, below every nesting key, below a key the walk does not follow),
\* JSON that is no plan, and text that is no JSON
MysqlDocuments ==
    {"{\"query_block\": {\"select_id\": 1, \"table\": {\"table_name\": \"users\", \"access_type\": \"ALL\", \"rows_examined_per_scan\": 1000, \"cost_info\": {\"read_cost\": \"10.50\"}}}}",
     "{\"query_block\": {\"nested_loop\": [{\"table\": {\"table_name\": \"users\", \"access_type\": \"ALL\"}}, {\"table\": {\"table_name\": \"orders\", \"access_type\": \"ref\", \"rows_examined_per_scan\": 5}}]}}",
     "{\"query_block\": {\"ordering_operation\": {\"table\": {\"table_name\": \"c\", \"access_type\": \"ALL\"}}, \"table\": {\"table_name\": \"a\", \"access_type\": \"index\"}, \"nested_loop\": [{\"table\": {\"table_name\": \"b\", \"access_type\": \"ALL\"}}]}}",
     "{\"query_block\": {\"ordering_operation\": {\"grouping_operation\": {\"nested_loop\": [{\"table\": {\"table_name\": \"a\", \"access_type\": \"ALL\"}}, {\"query_block\": {\"table\": {\"table_name\": \"b\", \"access_type\": \"eq_ref\"}, \"nested_loop\": [{\"table\": {\"table_name\": \"c\", \"access_type\": \"ALL\"}}]}}]}}}}",
     "{\"query_block\": {\"table\": {\"table_name\": \"a\", \"access_type\": \"ALL\"}, \"materialized_from_subquery\": {\"query_block\": {\"table\": {\"table_name\": \"b\", \"access_type\": \"ALL\"}}}}}",
     "{\"query_block\": {\"nested_loop\": [5, {\"table\": {\"table_name\": \"a\"}}, \"table\", [{\"table\": {\"table_name\": \"b\"}}]]}}",
     "{\"query_block\": {\"grouping_operation\": [{\"table\": {\"table_name\": \"a\", \"access_type\": \"ALL\"}}], \"query_block\": {\"table\": {\"table_name\": \"b\", \"access_type\": \"ALL\"}}}}",
     "{\"table\": {\"table_name\": \"users\", \"access_type\": \"ALL\"}}",
     "{\"query_block\": {}}",
     "{\"query_block\": []}",
     "{\"query_block\": \"x\"}",
     "{\"query_block\": null}",
     "{\"query_block\": 5}",
     "{\"query_block\": \"table\"}",
     "{\"query_block\": {\"table\": 5}}",
     "{\"query_block\": {\"table\": {\"table_name\": \"a\", \"cost_info\": 5}}}",
     "{\"query_block\": {\"nested_loop\": [{\"table\": {\"table_name\": \"a\", \"access_type\": \"ALL\"}}, {\"table\": \"b\"}]}}",
     "{\"a\": 1}",
     "123",
     "null",
     "true",
     "\"x\"",
     "\"query_block\"",
     "[1, 2]",
     "[\"query_block\"]",
     "{\"query_block\": {\"table\": ",
     "{'query_block': 1}"}

-----------------------------------------------------------------------------
(* query_analyzer.main, from the statements parse_log_file returned        *)

NoReport == [title |-> "", total |-> 0, found |-> 0, breakdown |-> <<>>,
             sections |-> <<>>, no_issues |-> FALSE]

Init ==
    /\ tool = "query_analyzer"
    /\ pc = "parse"
    /\ content = ""
    /\ raw_queries = <<>>
    /\ queries = <<>>
    /\ n_plus_one = PyNone
    /\ issues = <<>>
    /\ min_severity = "LOW"
    /\ dialect = "none"
    /\ nodes = <<>>
    /\ report = NoReport

\* parsed_queries = [parse_query(q) for q in raw_queries], one statement at a time
ParseQuery(sql, limit) ==
    /\ tool = "query_analyzer"
    /\ pc = "parse"
    /\ Len(raw_queries) < limit
    /\ raw_queries' = Append(raw_queries, sql)
    /\ queries' = Append(queries, Parsed[sql])
    /\ UNCHANGED <<tool, pc, content, n_plus_one, issues, min_severity, dialect, nodes, report>>

\* issues = analyze_queries(parsed_queries); main exits before when there is no query
Analyze ==
    /\ tool = "query_analyzer"
    /\ pc = "parse"
    /\ raw_queries # <<>>
    /\ n_plus_one' = detect_n_plus_one(queries)
    /\ issues' = analyze_queries(queries)
    /\ pc' = "analyzed"
    /\ UNCHANGED <<tool, content, raw_queries, queries, min_severity, dialect, nodes, report>>

\* the severity filter of main, for the --min-severity given
FilterSeverity(min) ==
    /\ tool = "query_analyzer"
    /\ pc = "analyzed"
    /\ min_severity' = min
    /\ issues' = filter_by_severity(issues, min)
    /\ pc' = "filtered"
    /\ UNCHANGED <<tool, content, raw_queries, queries, n_plus_one, dialect, nodes, report>>

\* print(format_report(issues, parsed_queries))
PrintReport ==
    /\ tool = "query_analyzer"
    /\ pc = "filtered"
    /\ report' = format_report(issues, queries)
    /\ pc' = "reported"
    /\ UNCHANGED <<tool, content, raw_queries, queries, n_plus_one, issues, min_severity, dialect, nodes>>

Next ==
    \/ \E sql \in Corpus : ParseQuery(sql, MaxQueries)
    \/ Analyze
    \/ \E min \in Severities : FilterSeverity(min)
    \/ PrintReport

Spec == Init /\ [][Next]_vars

\* analyze_queries on longer logs of few statements
NextBurst ==
    \/ \E sql \in BurstCorpus : ParseQuery(sql, MaxBurst)
    \/ Analyze

SpecBurst == Init /\ [][NextBurst]_vars

\* analyze_queries on short logs of every statement
NextEvidence ==
    \/ \E sql \in Corpus \cup BurstCorpus : ParseQuery(sql, MaxEvidenceLog)
    \/ Analyze

SpecEvidence == Init /\ [][NextEvidence]_vars

\* logs of two statements that differ only in a literal value
ParseLiteralPair(pair) ==
    /\ raw_queries = <<>>
    /\ ParseQuery(pair[1], 2)

ParseSecondOfPair(pair) ==
    /\ raw_queries = <<pair[1]>>
    /\ ParseQuery(pair[2], 2)

NextNormalize ==
    \/ \E pair \in LiteralPairs : ParseLiteralPair(pair)
    \/ \E pair \in LiteralPairs : ParseSecondOfPair(pair)
    \/ Analyze

SpecNormalize == Init /\ [][NextNormalize]_vars
-----------------------------------------------------------------------------
(* explain_parser.py: parse_postgres_explain                               *)

\* Optional[...] fields of ExplainNode
None == [kind |-> "None"]
Some(v) == [kind |-> "value", value |-> v]

\* int(digits) for a non-empty run of digits
DigitValue(c) == (CHOOSE k \in 1..10 : SubSeq(DigitChars, k, k) = c) - 1

ParseInt(ds) ==
    LET value[k \in 0..Len(ds)] ==
            IF k = 0 THEN 0 ELSE 10 * value[k - 1] + DigitValue(ds[k])
    IN  value[Len(ds)]

\* float(text) accepts a run of [\d.] when it holds one dot at most and a digit
IsFloatText(ds) ==
    /\ Cardinality({k \in 1..Len(ds) : ds[k] = "."}) <= 1
    /\ \E k \in 1..Len(ds) : ds[k] \in Digits

\* float(text) as the exact decimal units / 10^scale
ParseFloat(ds) ==
    LET dot == FindChar(ds, 1, ".")
        NotDot(c) == c # "."
        digits == SelectSeq(ds, NotDot)
    IN  [units |-> ParseInt(digits), scale |-> IF dot = 0 THEN 0 ELSE Len(ds) - dot]

NumberChars == Digits \cup {"."}
RelationChars == WordChars \cup {"."}
NodeNameChars == WordChars \cup Whitespace
PlanPrefixChars == Whitespace \cup {"-", ">"}

\* (?:\s+on\s+([\w\.]+))?\s*  matching exactly s[lo..hi], with hi + 1 the index of
\* "(cost=": <<TRUE, first, last index of the relation>> with the relation,
\* <<TRUE, 0, 0>> without it, <<FALSE, 0, 0>> when it does not match
OnRelation(s, lo, hi) ==
    LET p1 == SkipWhile(s, lo, Whitespace)
        p2 == SkipWhile(s, p1 + 2, Whitespace)
        r == SkipWhile(s, p2, RelationChars)
    IN  IF /\ p1 > lo
           /\ StartsWithAt(s, p1, Chars("on"))
           /\ p2 > p1 + 2
           /\ r > p2
           /\ SkipWhile(s, r, Whitespace) = hi + 1
        THEN <<TRUE, p2, r - 1>>
        ELSE IF p1 = hi + 1 THEN <<TRUE, 0, 0>>
        ELSE <<FALSE, 0, 0>>

\* ^[\s\->]*([\w\s]+?)(?:\s+on\s+([\w\.]+))?\s*  in front of the "(cost=" at c:
\* the prefix takes as much as it can, then the lazy name as little as it can.
\* <<first, last index of the name>>, <<0, 0>> when it does not match
NodeName(s, c) ==
    LET a == SkipWhile(s, 1, PlanPrefixChars)
        Ends(g) == {e \in g..(c - 1) :
                      /\ \A k \in g..e : s[k] \in NodeNameChars
                      /\ OnRelation(s, e + 1, c - 1)[1]}
        from == {g \in 1..a : g <= c - 1 /\ Ends(g) # {}}
    IN  IF from = {} THEN <<0, 0>>
        ELSE <<SetMax(from), SetMin(Ends(SetMax(from)))>>

\* ([\d.]+)\.\.([\d.]+)  on the run of [\d.] that starts at i: the first group
\* takes as much as it can. <<last index of group 1, first of group 2, last of
\* group 2>>, <<0, 0, 0>> when it does not match
NumberRange(s, i) ==
    LET e == SkipWhile(s, i, NumberChars) - 1
        dots == {k \in (i + 1)..(e - 2) : s[k] = "." /\ s[k + 1] = "."}
    IN  IF dots = {} THEN <<0, 0, 0>> ELSE <<SetMax(dots) - 1, SetMax(dots) + 2, e>>

\* \s+label(\d+)  at i: <<first, last index of the digits>>, <<0, 0>> when it
\* does not match
SpacedNumber(s, i, label) ==
    LET p == SkipWhile(s, i, Whitespace)
        d == p + Len(label)
        e == SkipWhile(s, d, Digits)
    IN  IF p > i /\ StartsWithAt(s, p, Chars(label)) /\ e > d THEN <<d, e - 1>> ELSE <<0, 0>>

\* \(cost=([\d.]+)\.\.([\d.]+)\s+rows=(\d+)\s+width=(\d+)\)  at c
CostPart(s, c) ==
    LET range == NumberRange(s, c + 6)
        rows == SpacedNumber(s, range[3] + 1, "rows=")
        width == SpacedNumber(s, rows[2] + 1, "width=")
    IN  IF /\ StartsWithAt(s, c, Chars("(cost="))
           /\ range[1] > 0
           /\ rows[1] > 0
           /\ width[1] > 0
           /\ StartsWithAt(s, width[2] + 1, <<")">>)
        THEN [matched |-> TRUE,
              startup_cost |-> SubSeq(s, c + 6, range[1]),
              total_cost |-> SubSeq(s, range[2], range[3]),
              rows |-> SubSeq(s, rows[1], rows[2]),
              last |-> width[2] + 1]
        ELSE [matched |-> FALSE]

\* (?:\s*\(actual time=([\d.]+)\.\.([\d.]+)\s+rows=(\d+)\s+loops=(\d+)\))?  after
\* index i
ActualPart(s, i) ==
    LET p == SkipWhile(s, i + 1, Whitespace)
        range == NumberRange(s, p + 13)
        rows == SpacedNumber(s, range[3] + 1, "rows=")
        loops == SpacedNumber(s, rows[2] + 1, "loops=")
    IN  IF /\ StartsWithAt(s, p, Chars("(actual time="))
           /\ range[1] > 0
           /\ rows[1] > 0
           /\ loops[1] > 0
           /\ StartsWithAt(s, loops[2] + 1, <<")">>)
        THEN [matched |-> TRUE,
              time_from |-> SubSeq(s, p + 13, range[1]),
              time_to |-> SubSeq(s, range[2], range[3]),
              rows |-> SubSeq(s, rows[1], rows[2]),
              loops |-> SubSeq(s, loops[1], loops[2])]
        ELSE [matched |-> FALSE]

\* re.match(node pattern, line): the groups the code reads, as text
node_match(s) ==
    LET c == FindChar(s, 1, "(")
        name == IF c > 0 THEN NodeName(s, c) ELSE <<0, 0>>
        cost == IF c > 0 THEN CostPart(s, c) ELSE [matched |-> FALSE]
    IN  IF name[1] > 0 /\ cost.matched
        THEN LET rel == OnRelation(s, name[2] + 1, c - 1)
             IN  [matched |-> TRUE,
                  group1 |-> SubSeq(s, name[1], name[2]),
                  group2 |-> IF rel[2] > 0 THEN Some(Join(SubSeq(s, rel[2], rel[3]))) ELSE None,
                  group3 |-> cost.startup_cost,
                  group4 |-> cost.total_cost,
                  group5 |-> cost.rows,
                  actual |-> ActualPart(s, cost.last)]
        ELSE [matched |-> FALSE]

ExplainIssue(severity, node_type, message, suggestion) ==
    [severity |-> severity, node_type |-> node_type, message |-> message,
     suggestion |-> suggestion]

\* ratio = actual_rows / estimated_rows; ratio > 10 or ratio < 0.1. For row
\* counts below 10^15 the double quotient compares with 10 and with 0.1 as
\* the exact quotient does.
ratio_out_of_range_inclusive(actual_rows, estimated_rows) ==
    actual_rows >= 10 * estimated_rows \/ 10 * actual_rows <= estimated_rows

ratio_out_of_range(actual_rows, estimated_rows) ==
    actual_rows > 10 * estimated_rows \/ 10 * actual_rows < estimated_rows

\* actual_rows is not None and estimated_rows > 0 and the ratio test
row_estimate_mismatch(actual_rows, estimated_rows) ==
    /\ actual_rows.kind # "None"
    /\ estimated_rows > 0
    /\ ratio_out_of_range(actual_rows.value, estimated_rows)

\* the issues of a line that matched the node pattern
node_issues(node_type, relation, estimated_rows, actual_rows, loops) ==
    (IF Contains(Chars(node_type), Chars("Seq Scan"))
     THEN <<ExplainIssue("MEDIUM", node_type,
                "Sequential scan on " \o (IF relation.kind = "None" THEN "table" ELSE relation.value),
                "Consider adding an index on filtered/joined columns")>>
     ELSE <<>>)
    \o (IF row_estimate_mismatch(actual_rows, estimated_rows)
        THEN <<ExplainIssue("MEDIUM", node_type,
                   "Row estimate mismatch: estimated " \o IntToStr(estimated_rows)
                       \o ", actual " \o IntToStr(actual_rows.value),
                   "Run ANALYZE on the table to update statistics")>>
        ELSE <<>>)
    \o (IF /\ Contains(Chars(node_type), Chars("Nested Loop"))
           /\ loops.kind # "None"
           /\ loops.value # 0
           /\ loops.value > 100
        THEN <<ExplainIssue("HIGH", node_type,
                   "Nested loop with " \o IntToStr(loops.value) \o " iterations",
                   "Consider using a hash or merge join, or add an index")>>
        ELSE <<>>)

\* re.search(r'shared read=(\d+)', line): the digits of the leftmost match,
\* <<>> when there is none
shared_read(s) ==
    LET hits == {i \in 1..Len(s) :
                    /\ StartsWithAt(s, i, Chars("shared read="))
                    /\ i + 12 <= Len(s)
                    /\ s[i + 12] \in Digits}
    IN  IF hits = {} THEN <<>>
        ELSE SubSeq(s, SetMin(hits) + 12, SkipWhile(s, SetMin(hits) + 12, Digits) - 1)

\* the warning patterns looked for in every line that is not a footer
marker_issues(s) ==
    (IF Contains(s, Chars("Sort Method: external"))
     THEN <<ExplainIssue("HIGH", "Sort", "Sort spilling to disk",
                "Increase work_mem or optimize query to reduce sort size")>>
     ELSE <<>>)
    \o (IF /\ Contains(s, Chars("Buffers: shared read"))
           /\ shared_read(s) # <<>>
           /\ ParseInt(shared_read(s)) > 10000
        THEN <<ExplainIssue("LOW", "Buffer",
                   "High buffer reads: " \o Join(shared_read(s)) \o " pages",
                   "Query may benefit from caching or index optimization")>>
        ELSE <<>>)

is_footer(s) ==
    \E w \in {"Planning", "Execution", "Total runtime"} : startswith(strip(s), Chars(w))

\* one iteration of the loop over the lines: the nodes and issues it appends,
\* or the ValueError of float() on a cost or time that is no number
plan_line_result(s, m) ==
        IF is_footer(s) THEN [raises |-> FALSE, nodes |-> <<>>, issues |-> <<>>]
        ELSE IF ~m.matched
        THEN [raises |-> FALSE, nodes |-> <<>>, issues |-> marker_issues(s)]
        ELSE IF \/ ~IsFloatText(m.group3)
                \/ ~IsFloatText(m.group4)
                \/ m.actual.matched /\ ~IsFloatText(m.actual.time_to)
        THEN [raises |-> TRUE, nodes |-> <<>>, issues |-> <<>>]
        ELSE LET node_type == Join(strip(m.group1))
                 estimated_rows == ParseInt(m.group5)
                 actual_time == IF m.actual.matched THEN Some(ParseFloat(m.actual.time_to)) ELSE None
                 actual_rows == IF m.actual.matched THEN Some(ParseInt(m.actual.rows)) ELSE None
                 loops == IF m.actual.matched THEN Some(ParseInt(m.actual.loops)) ELSE None
             IN  [raises |-> FALSE,
                  nodes |-> <<[node_type |-> node_type,
                               relation |-> m.group2,
                               cost |-> Some(ParseFloat(m.group4)),
                               rows |-> Some(estimated_rows),
                               actual_time |-> actual_time,
                               actual_rows |-> actual_rows,
                               loops |-> loops,
                               children |-> <<>>,
                               raw |-> Join(s),
                               warnings |-> <<>>]>>,
                  issues |-> node_issues(node_type, m.group2, estimated_rows, actual_rows, loops)
                                \o marker_issues(s)]

\* the loop body on one line, its pattern matched once
parse_plan_line(s) == CHOOSE r \in {plan_line_result(s, m) : m \in {node_match(s)}} : TRUE

\* parse_postgres_explain(text): (nodes, issues), or the exception raised
parse_postgres_explain(text) ==
    LET lines == split_lines(strip(Chars(text)))
        parsed == Map(parse_plan_line, lines)
        Raises(r) == r.raises
        NodesOf(r) == r.nodes
        IssuesOf_(r) == r.issues
    IN  IF SelectSeq(parsed, Raises) # <<>>
        THEN [raises |-> TRUE, nodes |-> <<>>, issues |-> <<>>]
        ELSE [raises |-> FALSE,
              nodes |-> Concat(Map(NodesOf, parsed)),
              issues |-> Concat(Map(IssuesOf_, parsed))]

-----------------------------------------------------------------------------
(* json.loads, for documents without escape sequences and exponents        *)

\* the value of x handed to F, evaluated once
Bind(x, F(_)) == CHOOSE r \in {F(v) : v \in {x}} : TRUE

JNull == [t |-> "null"]
JBool(b) == [t |-> "bool", b |-> b]
JStr(str) == [t |-> "str", s |-> str]
JArr(items) == [t |-> "arr", items |-> items]
\* members in document order, each [key |-> ..., value |-> ...]
JObj(members) == [t |-> "obj", members |-> members]
\* the number (-1)^negative * units / 10^scale; an int when is_int
JNum(negative, units, scale, is_int) ==
    [t |-> "num", negative |-> negative, units |-> units, scale |-> scale, is_int |-> is_int]

JsonWhitespace == {" ", "\t", "\n"}

CharAt(s, i) == IF i >= 1 /\ i <= Len(s) THEN s[i] ELSE ""

\* the text with, for every index, the number of quotes before it and the
\* number of brackets and braces open there: a character is part of the
\* document's structure when the count of quotes before it is even (escapes
\* are not modelled: a backslash makes the text invalid)
QuotesBefore(s) ==
    [i \in 1..Len(s) |-> Cardinality({q \in 1..(i - 1) : s[q] = "\""})] \o <<>>

NestingBefore(s, quotes) ==
    [i \in 1..Len(s) |->
        Cardinality({j \in 1..(i - 1) : s[j] \in {"[", "{"} /\ quotes[j] % 2 = 0})
        - Cardinality({j \in 1..(i - 1) : s[j] \in {"]", "}"} /\ quotes[j] % 2 = 0})] \o <<>>

Structural(scan, i) == scan.quotes[i] % 2 = 0

\* first and last index of lo..hi outside the JSON whitespace (hi + 1 and
\* lo - 1 when there is none)
FirstNonWhitespace(s, lo, hi) ==
    IF \E j \in lo..hi : s[j] \notin JsonWhitespace
    THEN SetMin({j \in lo..hi : s[j] \notin JsonWhitespace}) ELSE hi + 1

LastNonWhitespace(s, lo, hi) ==
    IF \E j \in lo..hi : s[j] \notin JsonWhitespace
    THEN SetMax({j \in lo..hi : s[j] \notin JsonWhitespace}) ELSE lo - 1

\* where json raises a JSONDecodeError
JInvalid == [t |-> "invalid"]

\* py_scanstring on s[a..b] (strict: no control character)
json_string(s, a, b) ==
    IF b > a /\ s[b] = "\""
       /\ \A k \in (a + 1)..(b - 1) : s[k] \notin {"\"", "\n", "\t", "\\"}
    THEN JStr(Join(SubSeq(s, a + 1, b - 1)))
    ELSE JInvalid

\* NUMBER_RE = (-?(?:0|[1-9]\d*))(\.\d+)? on the whole of s[a..b]
json_number(s, a, b) ==
    LET d == IF s[a] = "-" THEN a + 1 ELSE a
        e == IF \E j \in d..b : s[j] \notin Digits
             THEN SetMin({j \in d..b : s[j] \notin Digits}) ELSE b + 1
    IN  IF e = d \/ (s[d] = "0" /\ e # d + 1) THEN JInvalid
        ELSE IF e = b + 1
        THEN JNum(d > a, ParseInt(SubSeq(s, d, b)), 0, TRUE)
        ELSE IF s[e] = "." /\ e < b /\ \A j \in (e + 1)..b : s[j] \in Digits
        THEN JNum(d > a, ParseInt(SubSeq(s, d, e - 1) \o SubSeq(s, e + 1, b)), b - e, FALSE)
        ELSE JInvalid

\* a value that is neither an array nor an object, on the whole of s[a..b]
json_scalar(s, a, b) ==
    IF a > b THEN JInvalid
    ELSE IF s[a] = "\"" THEN json_string(s, a, b)
    ELSE IF SubSeq(s, a, b) = Chars("null") THEN JNull
    ELSE IF SubSeq(s, a, b) = Chars("true") THEN JBool(TRUE)
    ELSE IF SubSeq(s, a, b) = Chars("false") THEN JBool(FALSE)
    ELSE json_number(s, a, b)

\* the texts between the commas of the array or object s[a..b], each without
\* its outer whitespace; none when there is only whitespace between a and b
json_pieces(scan, a, b) ==
    LET commas == SortedSeq({c \in (a + 1)..(b - 1) :
                      /\ scan.s[c] = ","
                      /\ Structural(scan, c)
                      /\ scan.nesting[c] = scan.nesting[a] + 1})
        bounds == <<a>> \o commas \o <<b>>
    IN  IF FirstNonWhitespace(scan.s, a + 1, b - 1) = b THEN <<>>
        ELSE [k \in 1..(Len(bounds) - 1) |->
                 [a |-> FirstNonWhitespace(scan.s, bounds[k] + 1, bounds[k + 1] - 1),
                  b |-> LastNonWhitespace(scan.s, bounds[k] + 1, bounds[k + 1] - 1)]] \o <<>>

\* "key" : value in s[a..b]: the key and where the value is
json_member(s, a, b) ==
    LET close == FindChar(s, a + 1, "\"")
        colon == FirstNonWhitespace(s, close + 1, b)
    IN  IF a <= b /\ s[a] = "\"" /\ close # 0 /\ close < b
           /\ json_string(s, a, close) # JInvalid /\ colon <= b /\ s[colon] = ":"
        THEN [ok |-> TRUE, key |-> Join(SubSeq(s, a + 1, close - 1)),
              a |-> FirstNonWhitespace(s, colon + 1, b), b |-> b]
        ELSE [ok |-> FALSE, key |-> "", a |-> a, b |-> b]

json_members(scan, a, b) ==
    [k \in 1..Len(json_pieces(scan, a, b)) |->
        json_member(scan.s, json_pieces(scan, a, b)[k].a, json_pieces(scan, a, b)[k].b)] \o <<>>

\* scan_once on the whole of s[a..b], which has no outer whitespace: the
\* value, with JInvalid wherever json raises a JSONDecodeError. The pieces
\* of an array and the members of an object are evaluated once, as the
\* single element of a set.
RECURSIVE json_value(_, _, _)
json_value(scan, a, b) ==
    CASE CharAt(scan.s, a) = "[" /\ a < b /\ scan.s[b] = "]" /\ Structural(scan, b) ->
             CHOOSE value \in {JArr([k \in 1..Len(pieces) |->
                                       json_value(scan, pieces[k].a, pieces[k].b)] \o <<>>) :
                               pieces \in {json_pieces(scan, a, b)}} : TRUE
      [] CharAt(scan.s, a) = "{" /\ a < b /\ scan.s[b] = "}" /\ Structural(scan, b) ->
             CHOOSE value \in {JObj([k \in 1..Len(members) |->
                                       [key |-> members[k].key,
                                        value |-> IF members[k].ok
                                                  THEN json_value(scan, members[k].a, members[k].b)
                                                  ELSE JInvalid]] \o <<>>) :
                               members \in {json_members(scan, a, b)}} : TRUE
      [] CharAt(scan.s, a) \in {"[", "{"}
           /\ ~(a < b /\ scan.s[b] = (IF scan.s[a] = "[" THEN "]" ELSE "}") /\ Structural(scan, b)) ->
             JInvalid
      [] CharAt(scan.s, a) \notin {"[", "{"} -> json_scalar(scan.s, a, b)

RECURSIVE HasInvalid(_)
HasInvalid(value) ==
    \/ value.t = "invalid"
    \/ value.t = "arr" /\ \E k \in 1..Len(value.items) : HasInvalid(value.items[k])
    \/ value.t = "obj" /\ \E k \in 1..Len(value.members) : HasInvalid(value.members[k].value)

\* json.loads(text): the value, or not ok for a JSONDecodeError
json_loads(text) ==
    Bind(Chars(text), LAMBDA s :
        Bind(IF CharAt(s, FirstNonWhitespace(s, 1, Len(s))) \in {"[", "{"}
             THEN QuotesBefore(s) ELSE <<>>, LAMBDA quotes :
            Bind([s |-> s, quotes |-> quotes, nesting |-> IF quotes = <<>> THEN <<>> ELSE NestingBefore(s, quotes)], LAMBDA scan :
                Bind(json_value(scan, FirstNonWhitespace(s, 1, Len(s)),
                                      LastNonWhitespace(s, 1, Len(s))), LAMBDA v :
                    IF HasInvalid(v) THEN [ok |-> FALSE, value |-> JNull]
                    ELSE [ok |-> TRUE, value |-> v]))))

-----------------------------------------------------------------------------
(* Python operations on the values json.loads returns                      *)

\* the dict a JSON object becomes: a repeated key keeps its first place and
\* its last value
HasKey(obj, key) == \E k \in 1..Len(obj.members) : obj.members[k].key = key

Lookup(obj, key) ==
    obj.members[SetMax({k \in 1..Len(obj.members) : obj.members[k].key = key})].value

\* d.get(key, default)
dict_get(obj, key, default) == IF HasKey(obj, key) THEN Lookup(obj, key) ELSE default

dict_items(obj) ==
    LET keys == [k \in 1..Len(obj.members) |-> obj.members[k].key]
        first == FirstOccurrences(keys)
    IN  [k \in 1..Len(first) |-> [key |-> keys[first[k]], value |-> Lookup(obj, keys[first[k]])]]

\* `key in value`: membership for a dict and a list, substring for a str, a
\* TypeError for None, a bool and a number
py_contains(value, key) ==
    IF value.t = "obj" THEN [raises |-> FALSE, value |-> HasKey(value, key)]
    ELSE IF value.t = "arr"
    THEN [raises |-> FALSE, value |-> \E k \in 1..Len(value.items) : value.items[k] = JStr(key)]
    ELSE IF value.t = "str"
    THEN [raises |-> FALSE, value |-> key = "" \/ Contains(Chars(value.s), Chars(key))]
    ELSE [raises |-> TRUE, value |-> FALSE]

\* the digits of the fraction units / 10^scale without its trailing zeros ("0"
\* when none is left), as repr() prints a float of few digits
FractionText(units, scale) ==
    LET padded == [k \in 1..scale |-> (units \div Pow10(scale - k)) % 10]
        kept == {k \in 1..scale : padded[k] # 0}
    IN  IF kept = {} THEN "0"
        ELSE Join([k \in 1..SetMax(kept) |-> SubSeq(DigitChars, padded[k] + 1, padded[k] + 1)])

JoinWith(sep, texts) ==
    Join([k \in 1..(2 * Len(texts) - 1) |-> IF k % 2 = 1 THEN texts[(k + 1) \div 2] ELSE sep])

\* repr(value)
RECURSIVE py_repr(_)
py_repr(value) ==
    IF value.t = "null" THEN "None"
    ELSE IF value.t = "bool" THEN (IF value.b THEN "True" ELSE "False")
    ELSE IF value.t = "num"
    THEN (IF value.negative THEN "-" ELSE "")
             \o IntToStr(value.units \div Pow10(value.scale))
             \o (IF value.is_int THEN ""
                 ELSE "." \o FractionText(value.units % Pow10(value.scale), value.scale))
    ELSE IF value.t = "str"
    THEN (IF Contains(Chars(value.s), <<"'">>) /\ ~Contains(Chars(value.s), <<"\"">>)
          THEN "\"" \o value.s \o "\"" ELSE "'" \o value.s \o "'")
    ELSE IF value.t = "arr"
    THEN "[" \o (IF value.items = <<>> THEN ""
                 ELSE JoinWith(", ", [k \in 1..Len(value.items) |-> py_repr(value.items[k])]))
             \o "]"
    ELSE "{" \o (IF value.members = <<>> THEN ""
                 ELSE JoinWith(", ", [k \in 1..Len(dict_items(value)) |->
                                         "'" \o dict_items(value)[k].key \o "': "
                                             \o py_repr(dict_items(value)[k].value)]))
             \o "}"

\* str(value), as an f-string renders it
py_str(value) == IF value.t = "str" THEN value.s ELSE py_repr(value)

\* the value as the other parsers hold it: a str as its text, an int as its
\* number, anything else as json.loads returned it
py_value(value) ==
    IF value.t = "str" THEN value.s
    ELSE IF value.t = "num" /\ value.is_int
    THEN (IF value.negative THEN 0 - value.units ELSE value.units)
    ELSE value

\* an Optional field read with d.get(key): None when absent or null
optional_field(obj, key) ==
    IF ~HasKey(obj, key) \/ Lookup(obj, key).t = "null" THEN None
    ELSE Some(py_value(Lookup(obj, key)))

-----------------------------------------------------------------------------
(* explain_parser.py: parse_mysql_explain_json                             *)

Parsed_(ns, is) == [raises |-> FALSE, exception |-> "", nodes |-> ns, issues |-> is]
Raised(exception) == [raises |-> TRUE, exception |-> exception, nodes |-> <<>>, issues |-> <<>>]

NestingKeys == <<"nested_loop", "query_block", "ordering_operation", "grouping_operation">>

\* the node and the issue of block['table']
table_node(table) ==
    IF table.t # "obj" THEN Raised("AttributeError")
    ELSE IF dict_get(table, "cost_info", JObj(<<>>)).t # "obj" THEN Raised("AttributeError")
    ELSE Parsed_(
        <<[node_type |-> py_value(dict_get(table, "access_type", JStr("UNKNOWN"))),
           relation |-> optional_field(table, "table_name"),
           cost |-> optional_field(dict_get(table, "cost_info", JObj(<<>>)), "read_cost"),
           rows |-> optional_field(table, "rows_examined_per_scan"),
           actual_time |-> None,
           actual_rows |-> None,
           loops |-> None,
           children |-> <<>>,
           raw |-> table,
           warnings |-> <<>>]>>,
        IF dict_get(table, "access_type", JNull) = JStr("ALL")
        THEN <<ExplainIssue("HIGH", "Full Table Scan",
                   "Full table scan on " \o py_str(dict_get(table, "table_name", JNull)),
                   "Add an index on columns used in WHERE/JOIN")>>
        ELSE <<>>)

\* nodes.append(node), issues.append(issue) and a raise, in the order of the walk
NodeAppended(node) == [kind |-> "node", node |-> node]
IssueAppended(issue) == [kind |-> "issue", issue |-> issue]
ExceptionRaised(exception) == [kind |-> "raise", exception |-> exception]

\* what the `if 'table' in block` part of process_block does for a dict
table_appends(block) ==
    IF ~HasKey(block, "table") THEN <<>>
    ELSE IF table_node(Lookup(block, "table")).raises
    THEN <<ExceptionRaised(table_node(Lookup(block, "table")).exception)>>
    ELSE <<NodeAppended(table_node(Lookup(block, "table")).nodes[1])>>
         \o Map(IssueAppended, table_node(Lookup(block, "table")).issues)

\* block[key] as the list of the dicts the walk descends into
nested_blocks(block, key) ==
    LET IsDict(item) == item.t = "obj"
    IN  IF ~HasKey(block, key) THEN <<>>
        ELSE SelectSeq(IF Lookup(block, key).t = "arr" THEN Lookup(block, key).items
                       ELSE <<Lookup(block, key)>>, IsDict)

\* the dicts below the join keys alone, the sort and grouping keys left out
nested_in_joins_only(block) ==
    nested_blocks(block, NestingKeys[1]) \o nested_blocks(block, NestingKeys[2])

\* the dicts process_block calls itself on, in the order of its calls
nested_in_order(block) ==
    nested_blocks(block, NestingKeys[1]) \o nested_blocks(block, NestingKeys[2])
        \o nested_blocks(block, NestingKeys[3]) \o nested_blocks(block, NestingKeys[4])

\* process_block(block) as what it appends and raises, in order. Every block
\* below the first is a dict; the first, data['query_block'], can be any
\* value: `key in block` raises a TypeError for None, a bool and a number, and
\* block[key] raises one for a list and a str that contain the key
RECURSIVE process_block(_)
process_block(block) ==
    IF py_contains(block, "table").raises THEN <<ExceptionRaised("TypeError")>>
    ELSE IF block.t # "obj"
    THEN (IF \E key \in {"table"} \cup Range(NestingKeys) : py_contains(block, key).value
          THEN <<ExceptionRaised("TypeError")>> ELSE <<>>)
    ELSE table_appends(block)
         \o (CHOOSE appended \in
                 {Concat(below) : below \in
                     {[k \in 1..Len(nested) |-> process_block(nested[k])] \o <<>> :
                          nested \in {nested_in_order(block)}}} : TRUE)

\* the lists the walk has filled when it returns, or the exception that ends it
walk_result(appended) ==
    LET IsRaise(e) == e.kind = "raise"
        IsNode(e) == e.kind = "node"
        IsIssue(e) == e.kind = "issue"
        NodeOf(e) == e.node
        IssueOf(e) == e.issue
    IN  IF SelectSeq(appended, IsRaise) # <<>>
        THEN Raised(Head(SelectSeq(appended, IsRaise)).exception)
        ELSE Parsed_(Map(NodeOf, SelectSeq(appended, IsNode)),
                     Map(IssueOf, SelectSeq(appended, IsIssue)))

\* parse_mysql_explain_json(data)
parse_mysql_explain_json(data) ==
    IF data.t # "obj" THEN Raised("AttributeError")
    ELSE Bind(process_block(dict_get(data, "query_block", data)), walk_result)

-----------------------------------------------------------------------------
(* explain_parser.py: parse_mysql_explain                                  *)

LowerChar(c) ==
    IF \E l \in DOMAIN UpperMap : UpperMap[l] = c
    THEN CHOOSE l \in DOMAIN UpperMap : UpperMap[l] = c
    ELSE c

\* str.lower()
lower(s) == [i \in 1..Len(s) |-> LowerChar(s[i])]

\* s.split(c) for a one-character separator
split_on(s, c) ==
    LET breaks == SortedSeq({0} \cup {j \in 1..Len(s) : s[j] = c} \cup {Len(s) + 1})
    IN  [k \in 1..(Len(breaks) - 1) |-> SubSeq(s, breaks[k] + 1, breaks[k + 1] - 1)]

\* [p.strip() for p in line.split('|') if p.strip()]
row_parts(line) ==
    LET NonBlank(part) == part # <<>>
    IN  Map(Join, SelectSeq(Map(strip, split_on(line, "|")), NonBlank))

\* the header and border lines the loop skips
is_header_line(line) ==
    Contains(lower(line), Chars("select_type")) \/ startswith(line, <<"+">>)

\* str.isdigit() on ASCII text
isdigit(text) == text # "" /\ \A k \in 1..Len(text) : SubSeq(text, k, k) \in Digits

\* the issues of one row
row_issues(table, access_type, extra) ==
    (IF access_type = "ALL"
     THEN <<ExplainIssue("HIGH", "Full Table Scan", "Full table scan on " \o table,
                "Add an index on columns used in WHERE/JOIN")>>
     ELSE <<>>)
    \o (IF access_type = "index"
        THEN <<ExplainIssue("MEDIUM", "Full Index Scan", "Full index scan on " \o table,
                   "Query may not be using index efficiently")>>
        ELSE <<>>)
    \o (IF Contains(Chars(extra), Chars("Using filesort"))
        THEN <<ExplainIssue("MEDIUM", "Filesort", "Using filesort for ORDER BY",
                   "Add index that matches ORDER BY columns")>>
        ELSE <<>>)
    \o (IF Contains(Chars(extra), Chars("Using temporary"))
        THEN <<ExplainIssue("MEDIUM", "Temporary Table", "Creating temporary table",
                   "Optimize query to avoid temporary tables")>>
        ELSE <<>>)

\* the body of the loop, were the row count stored as a measured count
row_result_measured(line, parts) ==
    IF is_header_line(line) \/ Len(parts) < 10 THEN Parsed_(<<>>, <<>>)
    ELSE Parsed_(
        <<[node_type |-> parts[5],
           relation |-> Some(parts[3]),
           cost |-> None,
           rows |-> None,
           actual_time |-> None,
           actual_rows |-> IF isdigit(parts[10]) THEN Some(ParseInt(Chars(parts[10]))) ELSE None,
           loops |-> None,
           children |-> <<>>,
           raw |-> Join(line),
           warnings |-> <<>>]>>,
        row_issues(parts[3], parts[5], IF Len(parts) > 11 THEN parts[12] ELSE ""))

\* the body of the loop for the parts of one line
row_result(line, parts) ==
    IF is_header_line(line) \/ Len(parts) < 10 THEN Parsed_(<<>>, <<>>)
    ELSE Parsed_(
        <<[node_type |-> parts[5],
           relation |-> Some(parts[3]),
           cost |-> None,
           rows |-> IF isdigit(parts[10]) THEN Some(ParseInt(Chars(parts[10]))) ELSE None,
           actual_time |-> None,
           actual_rows |-> None,
           loops |-> None,
           children |-> <<>>,
           raw |-> Join(line),
           warnings |-> <<>>]>>,
        row_issues(parts[3], parts[5], IF Len(parts) > 11 THEN parts[12] ELSE ""))

parse_mysql_row(line) == Bind(row_parts(line), LAMBDA parts : row_result(line, parts))

\* the tabular part of parse_mysql_explain
parse_mysql_table(text) ==
    LET NodesOf(r) == r.nodes
        IssuesOf_(r) == r.issues
    IN  Bind(Map(parse_mysql_row, split_lines(strip(Chars(text)))), LAMBDA rows :
            Parsed_(Concat(Map(NodesOf, rows)), Concat(Map(IssuesOf_, rows))))

\* parse_mysql_explain(text): (nodes, issues), or the exception raised
parse_mysql_explain(text) ==
    Bind(json_loads(text), LAMBDA data :
        IF ~data.ok THEN parse_mysql_table(text)
        ELSE IF py_contains(data.value, "query_block").raises THEN Raised("TypeError")
        ELSE IF py_contains(data.value, "query_block").value
        THEN parse_mysql_explain_json(data.value)
        ELSE parse_mysql_table(text))

-----------------------------------------------------------------------------
(* query_analyzer.main, from the log text                                  *)

InitLog ==
    /\ tool = "query_analyzer"
    /\ pc = "read"
    /\ content = ""
    /\ raw_queries = <<>>
    /\ queries = <<>>
    /\ n_plus_one = PyNone
    /\ issues = <<>>
    /\ min_severity = "LOW"
    /\ dialect = "none"
    /\ nodes = <<>>
    /\ report = NoReport

LineCount(text) == Cardinality({j \in 1..Len(text) : SubSeq(text, j, j) = "\n"})

\* content = f.read(), one line of the log at a time
ReadLine(line) ==
    /\ tool = "query_analyzer"
    /\ pc = "read"
    /\ LineCount(content) < MaxLogLines
    /\ content' = content \o line \o "\n"
    /\ UNCHANGED <<tool, pc, raw_queries, queries, n_plus_one, issues, min_severity,
                   dialect, nodes, report>>

\* raw_queries = parse_log_file(content); without a statement main prints
\* "No SQL queries found in input." and exits with status 1
ExtractStatements ==
    /\ tool = "query_analyzer"
    /\ pc = "read"
    /\ raw_queries' = parse_log_file(content)
    /\ IF parse_log_file(content) = <<>>
       THEN /\ pc' = "no_queries"
            /\ report' = [NoReport EXCEPT !.title = "No SQL queries found in input."]
       ELSE /\ pc' = "extracted"
            /\ report' = report
    /\ UNCHANGED <<tool, content, queries, n_plus_one, issues, min_severity, dialect, nodes>>

\* parsed_queries = [parse_query(q) for q in raw_queries]
ParseStatements ==
    /\ tool = "query_analyzer"
    /\ pc = "extracted"
    /\ queries' = Map(parse_query, raw_queries)
    /\ pc' = "parse"
    /\ UNCHANGED <<tool, content, raw_queries, n_plus_one, issues, min_severity,
                   dialect, nodes, report>>

NextLog ==
    \/ \E line \in LogLines : ReadLine(line)
    \/ ExtractStatements
    \/ ParseStatements
    \/ Analyze
    \/ \E min \in Severities : FilterSeverity(min)
    \/ PrintReport

SpecLog == InitLog /\ [][NextLog]_vars

-----------------------------------------------------------------------------
(* explain_parser.py: format_report and main                               *)

\* the key of sorted(issues, key=...) in format_report
explain_severity_rank(severity) ==
    CASE severity = "HIGH" -> 0
      [] severity = "MEDIUM" -> 1
      [] severity = "LOW" -> 2

\* where a new element goes in an already sorted list when elements with the
\* same key are taken in any order: before the elements that are not smaller
insert_before_equal(listed, issue) ==
    LET before == {k \in 1..Len(listed) :
                      explain_severity_rank(listed[k].severity)
                          < explain_severity_rank(issue.severity)}
    IN  SubSeq(listed, 1, Cardinality(before)) \o <<issue>>
            \o SubSeq(listed, Cardinality(before) + 1, Len(listed))

\* sorted() is stable: an element goes after the elements that are not greater
insert_by_severity(listed, issue) ==
    LET before == {k \in 1..Len(listed) :
                      explain_severity_rank(listed[k].severity)
                          <= explain_severity_rank(issue.severity)}
    IN  SubSeq(listed, 1, Cardinality(before)) \o <<issue>>
            \o SubSeq(listed, Cardinality(before) + 1, Len(listed))

\* sorted(issues, key=lambda x: {'HIGH': 0, 'MEDIUM': 1, 'LOW': 2}[x.severity])
RECURSIVE sorted_by_severity(_)
sorted_by_severity(list) ==
    IF list = <<>> THEN <<>>
    ELSE insert_by_severity(sorted_by_severity(SubSeq(list, 1, Len(list) - 1)),
                            list[Len(list)])

\* the line of one node in the node summary; the [x.xxxms] suffix is kept as
\* the time it renders
node_info(i, node) ==
    [text |-> IntToStr(i) \o ". " \o node.node_type
                 \o (IF node.relation.kind # "None" /\ node.relation.value # ""
                     THEN " on " \o node.relation.value ELSE "")
                 \o (IF node.rows.kind # "None" /\ node.rows.value # 0
                     THEN " (rows: " \o IntToStr(node.rows.value) \o ")" ELSE ""),
     time |-> IF node.actual_time.kind # "None" /\ node.actual_time.value.units # 0
              THEN node.actual_time ELSE None]

\* format_report(nodes, issues) of explain_parser.py, by its parts
explain_format_report(ns, is) ==
    [title |-> "EXPLAIN ANALYSIS REPORT",
     total |-> Len(ns),
     found |-> Len(is),
     node_lines |-> [i \in 1..Len(ns) |-> node_info(i, ns[i])],
     listed |-> sorted_by_severity(is),
     no_issues |-> is = <<>>]

\* --postgres (the default), --mysql and --sqlite
Dialects == {"postgres", "mysql", "sqlite"}

\* the lines the tool is given: the output of the database named by the flag
InputLines == IF dialect = "mysql" THEN MysqlRows ELSE PlanLines

InitExplain ==
    /\ tool = "explain_parser"
    /\ pc = "read"
    /\ content = ""
    /\ raw_queries = <<>>
    /\ queries = <<>>
    /\ n_plus_one = PyNone
    /\ issues = <<>>
    /\ min_severity = "LOW"
    /\ dialect \in Dialects
    /\ nodes = <<>>
    /\ report = NoReport

\* content = f.read(), one line of the plan at a time
ReadPlanLine(line) ==
    /\ tool = "explain_parser"
    /\ pc = "read"
    /\ line \in InputLines
    /\ IF content = "" THEN TRUE ELSE SubSeq(content, Len(content), Len(content)) = "\n"
    /\ LineCount(content) < MaxPlanLines
    /\ content' = content \o line \o "\n"
    /\ UNCHANGED <<tool, pc, raw_queries, queries, n_plus_one, issues, min_severity,
                   dialect, nodes, report>>

\* content = f.read(), a text of MySQL in one piece
ReadDocument(document) ==
    /\ tool = "explain_parser"
    /\ pc = "read"
    /\ dialect = "mysql"
    /\ content = ""
    /\ content' = document
    /\ UNCHANGED <<tool, pc, raw_queries, queries, n_plus_one, issues, min_severity,
                   dialect, nodes, report>>

\* main, from the check of the content to the parser's return: exit 1 on a
\* blank content and for SQLite, the traceback of an exception of the parser
ParsePlan ==
    /\ tool = "explain_parser"
    /\ pc = "read"
    /\ IF content = "" \/ strip(Chars(content)) = <<>>
       THEN /\ pc' = "no_input"
            /\ report' = [NoReport EXCEPT !.title = "Error: No EXPLAIN output provided"]
            /\ UNCHANGED <<nodes, issues>>
       ELSE IF dialect = "postgres"
       THEN \E parsed \in {parse_postgres_explain(content)} :
                /\ pc' = IF parsed.raises THEN "raised" ELSE "parsed"
                /\ nodes' = parsed.nodes
                /\ issues' = parsed.issues
                /\ report' = report
       ELSE IF dialect = "mysql"
       THEN \E parsed \in {parse_mysql_explain(content)} :
                /\ pc' = IF parsed.raises THEN "raised" ELSE "parsed"
                /\ nodes' = parsed.nodes
                /\ issues' = parsed.issues
                /\ report' = report
       ELSE /\ pc' = "not_implemented"
            /\ report' = [NoReport EXCEPT !.title = "SQLite parsing not yet implemented"]
            /\ UNCHANGED <<nodes, issues>>
    /\ UNCHANGED <<tool, content, raw_queries, queries, n_plus_one, min_severity, dialect>>

\* print(format_report(nodes, issues))
PrintPlanReport ==
    /\ tool = "explain_parser"
    /\ pc = "parsed"
    /\ report' = explain_format_report(nodes, issues)
    /\ pc' = "reported"
    /\ UNCHANGED <<tool, content, raw_queries, queries, n_plus_one, issues, min_severity,
                   dialect, nodes>>

NextExplain ==
    \/ \E line \in PlanLines \cup MysqlRows : ReadPlanLine(line)
    \/ \E document \in MysqlDocuments : ReadDocument(document)
    \/ ParsePlan
    \/ PrintPlanReport

SpecExplain == InitExplain /\ [][NextExplain]_vars

\* either tool, from the text it reads to its report or its exit
InitTools == InitLog \/ InitExplain

NextTools == NextLog \/ NextExplain

SpecTools == InitTools /\ [][NextTools]_vars

\* either tool, from its start to its report
InitReports == Init \/ InitExplain

NextReports == Next \/ NextExplain

SpecReports == InitReports /\ [][NextReports]_vars

-----------------------------------------------------------------------------
(* Properties of the detectors                                             *)

IssuesOf(category) ==
    LET Is(i) == i.category = category
    IN  SelectSeq(issues, Is)

\* the indices of the log that hold the same normalized text as index i
GroupOf(i) == {j \in 1..Len(queries) : queries[j].normalized = queries[i].normalized}

Groups == {GroupOf(i) : i \in 1..Len(queries)}

IsBurst(G) == Cardinality(G) >= 3 /\ SetMax(G) - SetMin(G) <= 2 * Cardinality(G)

\* C1: after the analysis of any log, the N+1 issues are exactly one HIGH
\* 'N+1 Query' issue for every group of equal normalized text that has at
\* least 3 occurrences and an index span of at most twice its size (cited by
\* the group's first raw occurrences), and there is no other N+1 issue.
C1_OneIssuePerBurst ==
    pc = "analyzed" =>
        LET found == IssuesOf("N+1 Query")
            bursts == {G \in Groups : IsBurst(G)}
            Cites(k, G) == found[k].queries[1] = queries[SetMin(G)].raw
        IN  /\ Len(found) = Cardinality(bursts)
            /\ \A k \in 1..Len(found) : found[k].severity = "HIGH"
            /\ \A G \in bursts : Cardinality({k \in 1..Len(found) : Cites(k, G)}) = 1

\* a log with a burst and with a group of 3 or more that is spread too widely
C1_Witness ==
    /\ pc = "analyzed"
    /\ \E G \in Groups : IsBurst(G) /\ Cardinality(G) >= 5
    /\ \E G \in Groups : Cardinality(G) >= 3 /\ ~IsBurst(G)
    /\ Len(IssuesOf("N+1 Query")) = 1

\* C2: every SELECT with a comma-separated table list in its FROM clause and
\* no JOIN keyword gets exactly one HIGH 'Cartesian Join' issue, and no other
\* query gets one.
C2_CommaJoinFlagged ==
    pc = "analyzed" =>
        LET found == IssuesOf("Cartesian Join")
            comma == {i \in 1..Len(queries) :
                         queries[i].query_type = "SELECT" /\ comma_separated_from(queries[i])}
        IN  /\ Len(found) = Cardinality(comma)
            /\ \A k \in 1..Len(found) : found[k].severity = "HIGH"

\* C3: every detector returns a sequence of issues, the empty sequence when
\* it finds nothing; detect_n_plus_one is the detector whose result is kept
\* in n_plus_one (the other four build their result as a sequence).
C3_DetectorsReturnSequences ==
    pc = "analyzed" => n_plus_one.kind = "list"

\* C6: two statements that differ only in the values of their literals have
\* the same normalized text.
C6_LiteralInsensitive ==
    \A pair \in LiteralPairs :
        raw_queries = <<pair[1], pair[2]>> => queries[1].normalized = queries[2].normalized

\* C4: the 'Missing WHERE' issues are, in input order, one MEDIUM issue for
\* each SELECT that has neither WHERE nor LIMIT, and none for any other query.
C4_MissingWhereExactly ==
    pc = "analyzed" =>
        LET found == IssuesOf("Missing WHERE")
            bare == SortedSeq({i \in 1..Len(queries) :
                        /\ queries[i].query_type = "SELECT"
                        /\ ~queries[i].has_where
                        /\ ~queries[i].has_limit})
        IN  /\ Len(found) = Len(bare)
            /\ \A k \in 1..Len(found) :
                  /\ found[k].severity = "MEDIUM"
                  /\ found[k].queries = <<queries[bare[k]].raw>>

\* a log with a bare SELECT, a SELECT with LIMIT and a statement that is no
\* SELECT and has no WHERE
C4_Witness ==
    /\ pc = "analyzed"
    /\ Len(IssuesOf("Missing WHERE")) = 1
    /\ \E i \in 1..Len(queries) :
          queries[i].query_type = "SELECT" /\ queries[i].has_limit /\ ~queries[i].has_where
    /\ \E i \in 1..Len(queries) :
          queries[i].query_type # "SELECT" /\ ~queries[i].has_where
    /\ \E i \in 1..Len(queries) :
          queries[i].query_type = "SELECT" /\ ~queries[i].has_limit /\ ~queries[i].has_where

\* severity s is at least m under LOW < MEDIUM < HIGH
AtLeast(s, m) ==
    <<s, m>> \in {<<"LOW", "LOW">>, <<"MEDIUM", "LOW">>, <<"HIGH", "LOW">>,
                  <<"MEDIUM", "MEDIUM">>, <<"HIGH", "MEDIUM">>, <<"HIGH", "HIGH">>}

RECURSIVE IsSubsequence(_, _)
IsSubsequence(a, b) ==
    IF a = <<>> THEN TRUE
    ELSE IF b = <<>> THEN FALSE
    ELSE IF Head(a) = Head(b) THEN IsSubsequence(Tail(a), Tail(b))
    ELSE IsSubsequence(a, Tail(b))

\* C5: the filtered issues are exactly the analysed issues whose severity is
\* at least min_severity, in their original order; on the same input what
\* HIGH keeps is within what MEDIUM keeps, which is within what LOW keeps,
\* and LOW keeps everything.
C5_SeverityFilter ==
    pc \in {"filtered", "reported"} =>
        LET all == analyze_queries(queries)
            kept == SortedSeq({i \in 1..Len(all) : AtLeast(all[i].severity, min_severity)})
        IN  /\ issues = [k \in 1..Len(kept) |-> all[kept[k]]]
            /\ IsSubsequence(filter_by_severity(all, "HIGH"), filter_by_severity(all, "MEDIUM"))
            /\ IsSubsequence(filter_by_severity(all, "MEDIUM"), filter_by_severity(all, "LOW"))
            /\ filter_by_severity(all, "LOW") = all

\* a MEDIUM filter that drops a LOW issue and keeps a MEDIUM and a HIGH one
C5_Witness ==
    /\ pc = "filtered"
    /\ min_severity = "MEDIUM"
    /\ \E i \in 1..Len(issues) : issues[i].severity = "HIGH"
    /\ \E i \in 1..Len(issues) : issues[i].severity = "MEDIUM"
    /\ Len(issues) < Len(analyze_queries(queries))

-----------------------------------------------------------------------------
(* Properties of the log extractor                                         *)

AnyPatternMatches(s) ==
    \/ findall_executing(s) # <<>>
    \/ findall_query(s) # <<>>
    \/ findall_statement(s) # <<>>

\* C7: the statements returned are the non-blank captures of the first
\* pattern (Executing block, Query block, semicolon statement) that matches
\* anywhere, in input order, and the keyword-line fallback supplies them only
\* when none of the three patterns matches.
C7_FirstPatternWins ==
    pc \in {"extracted", "no_queries"} =>
        LET s == Chars(content)
        IN  raw_queries =
                Map(Join, IF AnyPatternMatches(s)
                          THEN stripped_matches(first_matching_pattern(s))
                          ELSE keyword_lines(s))

-----------------------------------------------------------------------------
(* Properties of the reports                                               *)

\* C8: a tool whose parsing found nothing (no statement in the log, no node
\* in a non-blank plan) ends in an explicit terminal condition and prints no
\* empty analysis report: a printed report never counts zero parsed items
\* together with zero issues.
C8_NoEmptyReport ==
    pc = "reported" => ~(report.total = 0 /\ report.found = 0)

WithSeverity(list, severity) ==
    LET Is(i) == i.severity = severity
    IN  SelectSeq(list, Is)

WithCategory(list, category) ==
    LET Is(i) == i.category = category
    IN  SelectSeq(list, Is)

\* the severities of the issues a printed report lists, top to bottom
ListedSeverities ==
    LET SeverityOf(e) == e.severity
        SectionSeverities(s) == Map(SeverityOf, s.entries)
    IN  IF tool = "explain_parser" THEN Map(SeverityOf, report.listed)
        ELSE Concat(Map(SectionSeverities, report.sections))

NonDecreasingRank(severities) ==
    \A k \in 1..(Len(severities) - 1) :
        explain_severity_rank(severities[k]) <= explain_severity_rank(severities[k + 1])

\* what the query-analysis report prints of an issue
ReportEntry(issue) ==
    [severity |-> issue.severity, message |-> issue.message,
     example |-> Map(q_display, Take(issue.queries, 1)),
     suggestion |-> issue.suggestion]

\* C9 (as amended): the EXPLAIN report lists every issue once, HIGH before
\* MEDIUM before LOW, and issues of equal severity in their emission order;
\* the query-analysis report lists the issues by category, the categories in
\* the order of their first issue and at most the first five issues of a
\* category in emission order, whatever their severity.
C9_ExplainSortedQueryGrouped ==
    pc = "reported" =>
        IF tool = "explain_parser"
        THEN /\ Len(report.listed) = Len(issues)
             /\ NonDecreasingRank(ListedSeverities)
             /\ \A severity \in Severities :
                    WithSeverity(report.listed, severity) = WithSeverity(issues, severity)
        ELSE /\ \A k \in 1..Len(report.sections) :
                    LET category == report.sections[k].category
                    IN  /\ WithCategory(issues, category) # <<>>
                        /\ report.sections[k].entries
                               = Map(ReportEntry, Take(WithCategory(issues, category), 5))
                        /\ \A j \in 1..(k - 1) :
                               \E a \in 1..Len(issues) :
                                   /\ issues[a].category = report.sections[j].category
                                   /\ \A b \in 1..a : issues[b].category # category
             /\ \A i \in 1..Len(issues) :
                    \E k \in 1..Len(report.sections) :
                        report.sections[k].category = issues[i].category

\* an EXPLAIN report whose order differs from the emission order and that
\* holds two different issues of one severity
C9_Witness ==
    /\ tool = "explain_parser"
    /\ pc = "reported"
    /\ report.listed # issues
    /\ \E i, j \in 1..Len(issues) :
           i < j /\ issues[i].severity = issues[j].severity /\ issues[i] # issues[j]

\* C9 as stated: in the EXPLAIN report and in the query-analysis report alike
\* the issues are listed HIGH, then MEDIUM, then LOW.
C9_BothReportsBySeverity ==
    pc = "reported" => NonDecreasingRank(ListedSeverities)

-----------------------------------------------------------------------------
(* Properties of the plan parser                                           *)

IsRowMismatch(issue) ==
    StartsWithAt(Chars(issue.message), 1, Chars("Row estimate mismatch"))

\* actual count present, estimate above 0, and actual/estimate above 10 or
\* below 0.1
RatioFlagged(node) ==
    /\ node.actual_rows.kind = "value"
    /\ node.rows.value > 0
    /\ \/ node.actual_rows.value > 10 * node.rows.value
       \/ 10 * node.actual_rows.value < node.rows.value

RowMismatchOf(node) ==
    [severity |-> "MEDIUM",
     node_type |-> node.node_type,
     message |-> "Row estimate mismatch: estimated " \o IntToStr(node.rows.value)
                     \o ", actual " \o IntToStr(node.actual_rows.value),
     suggestion |-> "Run ANALYZE on the table to update statistics"]

\* C10: the row-estimate-mismatch issues of a parsed plan are exactly one
\* MEDIUM issue, in node order, for every node whose actual row count is
\* present, whose estimate is above 0 and whose actual/estimate ratio is
\* strictly above 10 or strictly below 0.1; no other node has one.
C10_RowRatioExactly ==
    tool = "explain_parser" /\ pc \in {"parsed", "reported"} =>
        SelectSeq(issues, IsRowMismatch) = Map(RowMismatchOf, SelectSeq(nodes, RatioFlagged))

\* a plan with the node estimated 100 / actual 5000, flagged, and the node
\* estimated 100 / actual 150, not flagged
C10_Witness ==
    /\ tool = "explain_parser"
    /\ dialect = "postgres"
    /\ pc = "parsed"
    /\ \E n \in Range(nodes) : n.rows.value = 100 /\ n.actual_rows = Some(5000)
    /\ \E n \in Range(nodes) : n.rows.value = 100 /\ n.actual_rows = Some(150)
    /\ Len(SelectSeq(issues, IsRowMismatch)) = 1

-----------------------------------------------------------------------------
(* Properties of the over-fetch and duplicate detectors, and of evidence   *)

\* the indices of the SELECTs with a wildcard column list
WildcardSelects ==
    {i \in 1..Len(queries) : queries[i].selects_all /\ queries[i].query_type = "SELECT"}

\* C11: after the analysis of any log there is at most one 'SELECT *' issue;
\* there is one exactly when some SELECT has a wildcard column list, it is
\* LOW, its message counts those queries and its evidence is the raw text of
\* the first min(3, count) of them in input order.
C11_OneSelectStarIssue ==
    pc = "analyzed" =>
        LET found == IssuesOf("SELECT *")
            count == Cardinality(WildcardSelects)
            first == SortedSeq(WildcardSelects)
        IN  /\ Len(found) = IF count > 0 THEN 1 ELSE 0
            /\ count > 0 =>
                   /\ found[1].severity = "LOW"
                   /\ found[1].message = "Found " \o IntToStr(count) \o " queries using SELECT *"
                   /\ found[1].queries
                          = [k \in 1..(IF count < 3 THEN count ELSE 3) |-> queries[first[k]].raw]

\* four or more wildcard SELECTs, another query ahead of the third of them
C11_Witness ==
    /\ pc = "analyzed"
    /\ Cardinality(WildcardSelects) >= 4
    /\ \E i \in 1..Len(queries) :
           /\ i \notin WildcardSelects
           /\ Cardinality({j \in WildcardSelects : j < i}) < 3
    /\ Len(IssuesOf("SELECT *")) = 1

\* the indices holding the raw text of index i
SameRaw(i) == {j \in 1..Len(queries) : queries[j].raw = queries[i].raw}

\* C12: after the analysis of any log, every raw text that occurs at least 3
\* times, anywhere in the log, has exactly one MEDIUM 'Duplicate Query' issue
\* (citing it and counting its occurrences), a raw text that occurs once or
\* twice has none, and there is no other 'Duplicate Query' issue; queries
\* equal only after normalization are not counted together.
C12_OneIssuePerRepeatedText ==
    pc = "analyzed" =>
        LET found == IssuesOf("Duplicate Query")
            Cites(k, i) == found[k].queries = <<queries[i].raw>>
        IN  /\ \A i \in 1..Len(queries) :
                   Cardinality({k \in 1..Len(found) : Cites(k, i)})
                       = IF Cardinality(SameRaw(i)) >= 3 THEN 1 ELSE 0
            /\ \A k \in 1..Len(found) :
                   /\ found[k].severity = "MEDIUM"
                   /\ \E i \in 1..Len(queries) :
                          /\ Cites(k, i)
                          /\ found[k].message = "Identical query executed "
                                 \o IntToStr(Cardinality(SameRaw(i))) \o " times"

\* a raw text that occurs 3 times over a span too wide for an N+1 burst and
\* has its issue, and another that occurs twice, normalizes to the same text
\* and has none
C12_Witness ==
    /\ pc = "analyzed"
    /\ \E i, j \in 1..Len(queries) :
           /\ Cardinality(SameRaw(i)) = 3
           /\ SetMax(SameRaw(i)) - SetMin(SameRaw(i)) > 6
           /\ Cardinality(SameRaw(j)) = 2
           /\ queries[i].normalized = queries[j].normalized
           /\ \E k \in 1..Len(IssuesOf("Duplicate Query")) :
                  IssuesOf("Duplicate Query")[k].queries = <<queries[i].raw>>
           /\ \A k \in 1..Len(IssuesOf("Duplicate Query")) :
                  IssuesOf("Duplicate Query")[k].queries # <<queries[j].raw>>

RawTexts == {queries[i].raw : i \in 1..Len(queries)}

\* C13: every issue of analyze_queries carries 1 to 3 evidence queries, each
\* the raw text of a query of the log, and the evidence of an N+1 issue is
\* the raw text of the first three occurrences of its group in input order.
C13_EvidenceBound ==
    pc = "analyzed" =>
        /\ \A k \in 1..Len(issues) :
               /\ Len(issues[k].queries) \in 1..3
               /\ Range(issues[k].queries) \subseteq RawTexts
        /\ LET found == IssuesOf("N+1 Query")
               FirstThree(G) == [e \in 1..3 |-> queries[SortedSeq(G)[e]].raw]
           IN  \A k \in 1..Len(found) :
                   \E G \in Groups :
                       /\ IsBurst(G)
                       /\ found[k].queries = FirstThree(G)
                       /\ found[k].message = "Detected " \o IntToStr(Cardinality(G))
                              \o " similar queries executed in sequence"

\* an N+1 issue for a group of four whose first and last raw texts differ,
\* next to a 'SELECT *' issue
C13_Witness ==
    /\ pc = "analyzed"
    /\ \E G \in Groups :
           /\ IsBurst(G)
           /\ Cardinality(G) >= 4
           /\ queries[SetMin(G)].raw # queries[SetMax(G)].raw
    /\ Len(IssuesOf("N+1 Query")) = 1
    /\ Len(IssuesOf("SELECT *")) = 1
-----------------------------------------------------------------------------
(* Properties of the plan nodes                                            *)

Measured(node) == node.actual_time # None

\* C14: in every node of every plan parser (PostgreSQL text, MySQL rows,
\* MySQL JSON) the measured time, the measured row count and the loop count
\* are all present or all absent; they are present only for a line that
\* carries the measured-execution fragment.
C14_RuntimeMetricsTogether ==
    \A k \in 1..Len(nodes) :
        /\ (nodes[k].actual_rows # None) = Measured(nodes[k])
        /\ (nodes[k].loops # None) = Measured(nodes[k])
        /\ Measured(nodes[k]) =>
               dialect = "postgres" /\ Contains(Chars(nodes[k].raw), Chars("(actual time="))

\* a PostgreSQL plan with a measured and an unmeasured node
C14_Witness ==
    /\ pc = "parsed"
    /\ dialect = "postgres"
    /\ \E j, k \in 1..Len(nodes) :
           /\ Measured(nodes[j]) /\ nodes[j].actual_rows # None /\ nodes[j].loops # None
           /\ ~Measured(nodes[k]) /\ nodes[k].actual_rows = None /\ nodes[k].loops = None

-----------------------------------------------------------------------------
(* Properties of the MySQL parsers                                         *)

\* the cells of a row: the texts between its bars, those before a leading
\* bar and after a closing bar aside
FieldCount(line) ==
    LET cells == split_on(strip(line), "|")
    IN  Len(cells) - (IF strip(cells[1]) = <<>> THEN 1 ELSE 0)
                   - (IF Len(cells) > 1 /\ strip(cells[Len(cells)]) = <<>> THEN 1 ELSE 0)

IsDataRow(line) ==
    /\ ~startswith(line, <<"+">>)
    /\ ~Contains(lower(line), Chars("select_type"))
    /\ FieldCount(line) >= 10

DataRows(text) ==
    LET lines == split_lines(strip(Chars(text)))
    IN  {k \in 1..Len(lines) : IsDataRow(lines[k])}

\* C15: on a text that is no JSON parse_mysql_explain does not fail and
\* returns one node for each row of at least 10 fields between bars, the
\* header, the border and the shorter rows left out.
C15_TabularFallback ==
    (tool = "explain_parser" /\ dialect = "mysql" /\ pc \in {"parsed", "raised"}
        /\ ~json_loads(content).ok)
    => pc = "parsed" /\ Len(nodes) = Cardinality(DataRows(content))

-----------------------------------------------------------------------------
(* Properties of the log extractor on blank input                          *)

IsBlank(text) == strip(Chars(text)) = <<>>

\* C16: parse_log_file returns a sequence for every text, empty for the
\* empty text and for a text of whitespace alone, and no statement it
\* returns is empty or whitespace alone.
C16_NoBlankStatement ==
    pc \in {"extracted", "no_queries"} =>
        /\ \A k \in 1..Len(raw_queries) : ~IsBlank(raw_queries[k])
        /\ IsBlank(content) => raw_queries = <<>> /\ pc = "no_queries"

\* a text of line ends alone, from which no statement is returned
C16_Witness ==
    /\ pc = "no_queries"
    /\ content # ""
    /\ IsBlank(content)
    /\ raw_queries = <<>>

-----------------------------------------------------------------------------
(* Properties of parse_mysql_explain on JSON that is no plan               *)

\* C17: parse_mysql_explain returns a pair (nodes, issues) for every text and
\* never raises, also for JSON that is no plan: a number, null, a bool, a
\* str, a list, an object without the key query_block, a query_block or a
\* table that is no object.
C17_NeverRaises ==
    (tool = "explain_parser" /\ dialect = "mysql") => pc # "raised"

-----------------------------------------------------------------------------
(* Properties of the walk over a JSON plan                                 *)

\* the blocks one nesting key below a block: for the key of rank `rank` in
\* NestingKeys and the place i in its list (1 for a value that is no list),
\* the dict found there
Steps(block) ==
    UNION {LET v == Lookup(block, NestingKeys[rank])
               items == IF v.t = "arr" THEN v.items ELSE <<v>>
           IN  {[at |-> <<rank, i>>, block |-> items[i]] :
                    i \in {j \in 1..Len(items) : items[j].t = "obj"}} :
           rank \in {r \in 1..Len(NestingKeys) : HasKey(block, NestingKeys[r])}}

\* every block reachable from a block through chains of nesting keys, with
\* the chain that leads to it
RECURSIVE Reached(_)
Reached(block) ==
    {[path |-> <<>>, block |-> block]}
        \cup UNION {{[path |-> step.at \o r.path, block |-> r.block] : r \in Reached(step.block)} :
                    step \in Steps(block)}

\* p comes before q in pre-order: p is a proper prefix of q, or at the first
\* difference p has the key of lower rank or the earlier place in the list
PathBefore(p, q) ==
    \E k \in 1..(Len(q)) :
        /\ \A j \in 1..(k - 1) : j <= Len(p) /\ p[j] = q[j]
        /\ k = Len(p) + 1 \/ (k <= Len(p) /\ p[k] < q[k])

\* the reachable blocks that carry a table, in pre-order
TableBlocks(root) ==
    LET found == {r \in Reached(root) : HasKey(r.block, "table")}
    IN  [k \in 1..Cardinality(found) |->
            CHOOSE r \in found : Cardinality({o \in found : PathBefore(o.path, r.path)}) = k - 1]

\* the top-level plan block of a document that parse_mysql_explain walks
PlanBlock(text) == dict_get(json_loads(text).value, "query_block", json_loads(text).value)

IsPlanDocument(text) ==
    /\ json_loads(text).ok
    /\ json_loads(text).value.t = "obj"
    /\ HasKey(json_loads(text).value, "query_block")
    /\ PlanBlock(text).t = "obj"

FullScanIssue(node) ==
    ExplainIssue("HIGH", "Full Table Scan",
        "Full table scan on " \o (IF node.relation = None THEN "None" ELSE node.relation.value),
        "Add an index on columns used in WHERE/JOIN")

\* C18: for a JSON plan the walk returns exactly one node for each block that
\* carries a table and is reachable from the top-level plan block through a
\* chain of the keys nested_loop, query_block, ordering_operation and
\* grouping_operation of any length, the nodes in pre-order (a block's table
\* before its nested blocks, the items of a list in list order), and one HIGH
\* 'Full Table Scan' issue for each node of access type ALL and no other, in
\* the order of the nodes.
C18_OneNodePerReachableTable ==
    (tool = "explain_parser" /\ dialect = "mysql" /\ pc = "parsed" /\ IsPlanDocument(content))
    => \E tables \in {TableBlocks(PlanBlock(content))} :
           /\ Len(nodes) = Len(tables)
           /\ \A k \in 1..Len(nodes) :
                  /\ nodes[k].raw = Lookup(tables[k].block, "table")
                  /\ nodes[k].node_type =
                         py_value(dict_get(nodes[k].raw, "access_type", JStr("UNKNOWN")))
                  /\ nodes[k].relation = optional_field(nodes[k].raw, "table_name")
           /\ LET IsFullScan(node) == node.node_type = "ALL"
              IN  issues = Map(FullScanIssue, SelectSeq(nodes, IsFullScan))

\* a plan with tables three, four and five keys below the top-level block,
\* below all four nesting keys, two of the three read in full
C18_Witness ==
    /\ tool = "explain_parser" /\ dialect = "mysql" /\ pc = "parsed"
    /\ IsPlanDocument(content)
    /\ Len(nodes) = 3
    /\ Len(issues) = 2
    /\ {Len(TableBlocks(PlanBlock(content))[k].path) : k \in 1..3} = {6, 8, 10}
    /\ UNION {{TableBlocks(PlanBlock(content))[k].path[j] :
                   j \in {i \in DOMAIN TableBlocks(PlanBlock(content))[k].path : i % 2 = 1}} :
               k \in 1..3} = 1..4

-----------------------------------------------------------------------------
(* Properties of the dispatch of parse_postgres_explain on its lines       *)

PlanLinesRead == split_lines(strip(Chars(content)))

IsNodeLine(line) == ~is_footer(line) /\ node_match(line).matched

IsMarkerIssue(issue) ==
    \/ issue.message = "Sort spilling to disk"
    \/ startswith(Chars(issue.message), Chars("High buffer reads"))

\* what the disk-spill and buffer-read markers of the lines ask for
MarkerIssuesExpected ==
    LET Spill(line) ==
            IF Contains(line, Chars("Sort Method: external"))
            THEN <<[severity |-> "HIGH", node_type |-> "Sort"]>> ELSE <<>>
        Reads(line) ==
            IF Contains(line, Chars("Buffers: shared read")) /\ shared_read(line) # <<>>
               /\ ParseInt(shared_read(line)) > 10000
            THEN <<[severity |-> "LOW", node_type |-> "Buffer"]>> ELSE <<>>
        OfLine(line) == IF is_footer(line) THEN <<>> ELSE Spill(line) \o Reads(line)
    IN  Concat(Map(OfLine, PlanLinesRead))

\* C19: for every sequence of lines parse_postgres_explain returns one node
\* for each line that is no footer and matches the node pattern, in the
\* order of the lines; a footer line (Planning, Execution, Total runtime)
\* gives no node and no issue, whatever marker it holds; a line that is
\* neither gives no node, and an issue for each marker it holds (HIGH for an
\* external sort, LOW for more than 10000 shared-read pages).
C19_PerLineDispatch ==
    (tool = "explain_parser" /\ dialect = "postgres" /\ pc \in {"parsed", "raised"})
    => /\ pc = "parsed"
       /\ [k \in 1..Len(nodes) |-> Chars(nodes[k].raw)] = SelectSeq(PlanLinesRead, IsNodeLine)
       /\ LET Marker(issue) == [severity |-> issue.severity, node_type |-> issue.node_type]
          IN  Map(Marker, SelectSeq(issues, IsMarkerIssue)) = MarkerIssuesExpected
====
